---- MODULE Spec2Model ----
(***************************************************************************)
(* Variable collection and merging engine of shinkansen                    *)
(* (src/src/variables.rs): the escape-aware tokenizer, the key/value token *)
(* parser, the value unescaper, the type coercion, the nested-path merger  *)
(* and the three precedence passes of collect_variables.                   *)
(*                                                                         *)
(* A string is a sequence of characters; a character is a one-element      *)
(* name ("a", ",", "\\", ...).  "U00E9" and "U20AC" stand for the two-byte *)
(* character U+00E9 and the three-byte character U+20AC, so that byte      *)
(* offsets and character indices differ as they do in UTF-8.               *)
(***************************************************************************)
EXTENDS Integers, Sequences, FiniteSets, TLC

VARIABLES
    pc,         \* position of the run: which pass or call comes next
    cli,        \* the parsed command line: [env, config, variables]
    environ,    \* the process environment: name -> value
    variables,  \* the namespace under construction (HashMap<String, Value>)
    before,     \* the namespace as it was when the last pass or call began
    files,      \* the file system: path -> content
    result,     \* what the run or the last call returned
    input,      \* argument of the pure function under study
    output      \* its result

vars == <<pc, cli, environ, files, variables, before, result, input, output>>

---------------------------------------------------------------------------
(* Bounds *)

\* longest string enumerated exhaustively over Alphabet
MaxLen == 3
\* most -D definitions on one command line
MaxDefs == 2
\* most successive collect_cli_variables calls on one map
MaxCalls == 2

---------------------------------------------------------------------------
(* Strings, UTF-8 widths and byte slices *)

BS == "\\"

\* char::len_utf8
len_utf8(ch) ==
    IF ch = "U00E9" THEN 2 ELSE IF ch = "U20AC" THEN 3 ELSE 1

RECURSIVE ByteLen(_)
\* str::len: the length in bytes
ByteLen(s) ==
    IF s = <<>> THEN 0 ELSE len_utf8(Head(s)) + ByteLen(Tail(s))

\* byte offset at which character i (1-based) starts; ByteOffset(s, Len(s)+1) = ByteLen(s)
ByteOffset(s, i) == ByteLen(SubSeq(s, 1, i - 1))

\* str::is_char_boundary
IsCharBoundary(s, b) == \E i \in 1..(Len(s) + 1) : ByteOffset(s, i) = b

\* index of the character starting at byte b (b a boundary)
CharAt(s, b) == CHOOSE i \in 1..(Len(s) + 1) : ByteOffset(s, i) = b

\* &s[a..b]: <<"Ok", substring>>, or <<"Panic">> when an end is out of range or
\* falls inside a character
ByteSlice(s, a, b) ==
    IF a <= b /\ b <= ByteLen(s) /\ IsCharBoundary(s, a) /\ IsCharBoundary(s, b)
    THEN <<"Ok", SubSeq(s, CharAt(s, a), CharAt(s, b) - 1)>>
    ELSE <<"Panic">>

IsOk(r) == r[1] = "Ok"
IsErr(r) == r[1] = "Err"
IsPanic(r) == r[1] = "Panic"

---------------------------------------------------------------------------
(* split_unescaped *)

I32_MIN == -2147483647 - 1

\* i32::saturating_sub(1)
saturating_sub1(x) == IF x = I32_MIN THEN I32_MIN ELSE x - 1

RECURSIVE SplitLoop(_, _, _, _, _, _, _, _)
\* the while loop of split_unescaped; pos and current_start are sums of byte
\* widths, and pos is also what the code indexes the character vector with
SplitLoop(s, delimiter, pos, in_escape, in_brackets, in_braces, current_start, res) ==
    IF ~(pos < Len(s))
    THEN <<"Ok", res, current_start>>
    ELSE
        LET ch == s[pos + 1]
            next == pos + len_utf8(ch)
        IN  IF in_escape
            THEN SplitLoop(s, delimiter, next, FALSE, in_brackets, in_braces, current_start, res)
            ELSE IF ch = BS
            THEN SplitLoop(s, delimiter, next, TRUE, in_brackets, in_braces, current_start, res)
            ELSE IF ch = "["
            THEN SplitLoop(s, delimiter, next, FALSE, in_brackets + 1, in_braces, current_start, res)
            ELSE IF ch = "]"
            THEN SplitLoop(s, delimiter, next, FALSE, saturating_sub1(in_brackets), in_braces, current_start, res)
            ELSE IF ch = "{"
            THEN SplitLoop(s, delimiter, next, FALSE, in_brackets, in_braces + 1, current_start, res)
            ELSE IF ch = "}"
            THEN SplitLoop(s, delimiter, next, FALSE, in_brackets, saturating_sub1(in_braces), current_start, res)
            ELSE IF ch = delimiter /\ in_brackets = 0 /\ in_braces = 0
            THEN LET piece == ByteSlice(s, current_start, pos)
                 IN  IF IsPanic(piece)
                     THEN <<"Panic">>
                     ELSE SplitLoop(s, delimiter, next, FALSE, in_brackets, in_braces,
                                    pos + len_utf8(ch), Append(res, piece[2]))
            ELSE SplitLoop(s, delimiter, next, FALSE, in_brackets, in_braces, current_start, res)

\* a variant that pushes the remainder whether or not it is empty
split_unescaped_AlwaysRemainder(s, delimiter) ==
    LET loop == SplitLoop(s, delimiter, 0, FALSE, 0, 0, 0, <<>>)
    IN  IF IsPanic(loop)
        THEN <<"Panic">>
        ELSE LET rest == ByteSlice(s, loop[3], ByteLen(s))
             IN  IF IsPanic(rest) THEN <<"Panic">>
                 ELSE <<"Ok", Append(loop[2], rest[2])>>

\* split_unescaped(s, delimiter): <<"Ok", pieces>> or <<"Panic">>
split_unescaped(s, delimiter) ==
    LET loop == SplitLoop(s, delimiter, 0, FALSE, 0, 0, 0, <<>>)
    IN  IF IsPanic(loop)
        THEN <<"Panic">>
        ELSE LET res == loop[2]
                 current_start == loop[3]
             IN  IF current_start < ByteLen(s)
                 THEN LET rest == ByteSlice(s, current_start, ByteLen(s))
                      IN  IF IsPanic(rest) THEN <<"Panic">>
                          ELSE <<"Ok", Append(res, rest[2])>>
                 ELSE IF res = <<>>
                 THEN <<"Ok", <<s>>>>
                 ELSE <<"Ok", res>>

---------------------------------------------------------------------------
(* Errors (src/src/error.rs) *)

VariableParseError(message) == <<"VariableParseError", message>>
ConfigParseError(message) == <<"ConfigParseError", message>>

\* format!("Invalid variable format: '{}'. Use KEY=VALUE", single_var)
InvalidFormatMessage(single_var) ==
    <<"Invalid variable format: '">> \o single_var \o <<"'. Use KEY=VALUE">>

---------------------------------------------------------------------------
(* The key/value token parser of load_cli_variables *)

RECURSIVE KeyEndLoop_CountChars(_, _, _, _)
\* a variant that counts characters, not encoded bytes
KeyEndLoop_CountChars(single_var, i, in_escape, key_end) ==
    IF i > Len(single_var)
    THEN key_end
    ELSE IF in_escape
    THEN KeyEndLoop_CountChars(single_var, i + 1, FALSE, key_end + 1)
    ELSE IF single_var[i] = BS
    THEN KeyEndLoop_CountChars(single_var, i + 1, TRUE, key_end + 1)
    ELSE IF single_var[i] = "="
    THEN key_end
    ELSE KeyEndLoop_CountChars(single_var, i + 1, FALSE, key_end + 1)

RECURSIVE KeyEndLoop(_, _, _, _)
\* the for loop over single_var.chars(): the byte offset of the first '='
\* seen outside an escape, or the byte length when there is none
KeyEndLoop(single_var, i, in_escape, key_end) ==
    IF i > Len(single_var)
    THEN key_end
    ELSE LET ch == single_var[i]
         IN  IF in_escape
             THEN KeyEndLoop(single_var, i + 1, FALSE, key_end + len_utf8(ch))
             ELSE IF ch = BS
             THEN KeyEndLoop(single_var, i + 1, TRUE, key_end + len_utf8(ch))
             ELSE IF ch = "="
             THEN key_end
             ELSE KeyEndLoop(single_var, i + 1, FALSE, key_end + len_utf8(ch))

FindKeyEnd(single_var) == KeyEndLoop(single_var, 1, FALSE, 0)

\* a variant without the empty-key test
IsInvalidToken_NoKeyTest(single_var, key_end) ==
    key_end >= ByteLen(single_var)

\* a variant that also refuses a key that begins with a dot
IsInvalidToken_LeadingDot(single_var, key_end) ==
    key_end = 0 \/ key_end >= ByteLen(single_var) \/ single_var[1] = "."

\* key_end == 0 || key_end >= single_var.len()
IsInvalidToken(single_var, key_end) ==
    key_end = 0 \/ key_end >= ByteLen(single_var)

\* one token: <<"Err", e>>, <<"Panic">>, or <<"Ok", key, value_with_escapes>>
ParseToken(single_var) ==
    LET key_end == FindKeyEnd(single_var)
    IN  IF IsInvalidToken(single_var, key_end)
        THEN <<"Err", VariableParseError(InvalidFormatMessage(single_var))>>
        ELSE LET key == ByteSlice(single_var, 0, key_end)
                 value_with_escapes == ByteSlice(single_var, key_end + 1, ByteLen(single_var))
             IN  IF IsPanic(key) \/ IsPanic(value_with_escapes)
                 THEN <<"Panic">>
                 ELSE <<"Ok", key[2], value_with_escapes[2]>>

---------------------------------------------------------------------------
(* unescape_value *)

\* a variant that does not know the closing bracket
EscapableChars_NoCloser == {BS, ",", "=", "[", "{", "}"}

\* the characters a backslash escapes: the arms of the match on next_ch
EscapableChars == {BS, ",", "=", "[", "]", "{", "}"}

RECURSIVE unescape_value(_)
unescape_value(value) ==
    IF value = <<>>
    THEN <<>>
    ELSE LET ch == Head(value)
             rest == Tail(value)
         IN  IF ch = BS
             THEN IF rest # <<>>
                  THEN LET next_ch == Head(rest)
                       IN  IF next_ch \in EscapableChars
                           THEN <<next_ch>> \o unescape_value(Tail(rest))
                           ELSE <<BS, next_ch>> \o unescape_value(Tail(rest))
                  ELSE <<BS>>
             ELSE <<ch>> \o unescape_value(rest)

---------------------------------------------------------------------------
(* Values: tera::Value = serde_json::Value.                                *)
(*   <<"Null">>  <<"Bool", b>>  <<"String", s>>  <<"Array", items>>         *)
(*   <<"Object", fields>> with fields a function from names to values       *)
(*   <<"Number", <<"Int", neg, n>>>>   the integer (-1)^neg * n             *)
(*   <<"Number", <<"Float", neg, m, e>>>> the float (-1)^neg * m * 10^e,    *)
(*       m without trailing zeros, or m = 0 and e = 0 (neg tells -0.0)      *)
(* Digit strings are taken short enough for machine integers here: no      *)
(* drawn input has ten digits, so as_i64 and u64/i64 overflow never act.    *)

Null == <<"Null">>
Bool(b) == <<"Bool", b>>
String(s) == <<"String", s>>
Array(items) == <<"Array", items>>
Object(fields) == <<"Object", fields>>
IntNumber(i) == <<"Number", <<"Int", i < 0, IF i < 0 THEN -i ELSE i>>>>

IsObject(v) == v[1] = "Object"

EmptyMap == [k \in {} |-> Null]

\* Map::insert / HashMap::insert: set or overwrite one key, keep the others
MapInsert(map, key, value) ==
    [k \in (DOMAIN map) \cup {key} |-> IF k = key THEN value ELSE map[k]]

RECURSIVE Pow10(_)
Pow10(k) == IF k <= 0 THEN 1 ELSE 10 * Pow10(k - 1)

\* f64::MAX_10_EXP and f64::MIN_10_EXP - 16 (the subnormal range)
F64_MAX_10_EXP == 308
F64_MIN_10_EXP == -323

RECURSIVE NormFloat(_, _, _)
\* the float m * 10^e in the canonical form above; magnitudes under the
\* smallest subnormal round to zero
NormFloat(neg, m, e) ==
    IF m = 0 THEN <<"Float", neg, 0, 0>>
    ELSE IF m % 10 = 0 THEN NormFloat(neg, m \div 10, e + 1)
    ELSE <<"Float", neg, m, e>>

RECURSIVE NumDigits(_)
NumDigits(m) == IF m < 10 THEN 1 ELSE 1 + NumDigits(m \div 10)

\* f64::is_finite of the parse of m * 10^e: the decimal exponent of the
\* leading digit is at most 308 (f64::MAX is about 1.8e308; no drawn input
\* lies between 1e308 and f64::MAX)
is_finite(m, e) == m = 0 \/ NumDigits(m) + e - 1 < F64_MAX_10_EXP + 1

\* the parse of m * 10^e underflows to zero
Underflows(m, e) == m # 0 /\ NumDigits(m) + e - 1 < F64_MIN_10_EXP - 1

---------------------------------------------------------------------------
(* Scanning decimal numbers *)

DigitChars == <<"0", "1", "2", "3", "4", "5", "6", "7", "8", "9">>
IsDigit(ch) == \E d \in 1..10 : DigitChars[d] = ch
DigitVal(ch) == (CHOOSE d \in 1..10 : DigitChars[d] = ch) - 1

WhiteSpace == {" ", "\t", "\n", "\r"}

RECURSIVE SkipDigits(_, _)
\* first index at or after i that holds no digit
SkipDigits(s, i) ==
    IF i <= Len(s) /\ IsDigit(s[i]) THEN SkipDigits(s, i + 1) ELSE i

RECURSIVE SkipWs(_, _)
SkipWs(s, i) ==
    IF i <= Len(s) /\ s[i] \in WhiteSpace THEN SkipWs(s, i + 1) ELSE i

RECURSIVE DigitsValue(_, _, _)
\* the number written by the digits s[i..j-1]; 0 for none
DigitsValue(s, i, j) ==
    IF j <= i THEN 0 ELSE DigitsValue(s, i, j - 1) * 10 + DigitVal(s[j - 1])

\* the pieces of the shape digits [. digits] [(e|E) [+|-] digits] starting at i
IntEnd(s, i) == SkipDigits(s, i)
HasDotAt(s, e) == e <= Len(s) /\ s[e] = "."
FracFromAt(s, e) == IF HasDotAt(s, e) THEN e + 1 ELSE e
FracFrom(s, i) == FracFromAt(s, IntEnd(s, i))
FracEnd(s, i) == SkipDigits(s, FracFrom(s, i))
HasExpAt(s, f) == f <= Len(s) /\ s[f] \in {"e", "E"}
HasSignAt(s, f) == HasExpAt(s, f) /\ f + 1 <= Len(s) /\ s[f + 1] \in {"+", "-"}
ExpFromAt(s, f) ==
    IF HasExpAt(s, f) THEN (IF HasSignAt(s, f) THEN f + 2 ELSE f + 1) ELSE f
ScanExponent(s, i, intEnd, fracFrom, fracEnd) ==
    [intFrom |-> i, intEnd |-> intEnd, hasDot |-> HasDotAt(s, intEnd),
     fracFrom |-> fracFrom, fracEnd |-> fracEnd, hasExp |-> HasExpAt(s, fracEnd),
     expNeg |-> HasSignAt(s, fracEnd) /\ s[fracEnd + 1] = "-",
     expFrom |-> ExpFromAt(s, fracEnd),
     expEnd |-> SkipDigits(s, ExpFromAt(s, fracEnd))]
ScanNumber(s, i) == ScanExponent(s, i, IntEnd(s, i), FracFrom(s, i), FracEnd(s, i))

\* the scanned number as mantissa and decimal exponent
ScannedMantissa(s, n) ==
    DigitsValue(s, n.intFrom, n.intEnd) * Pow10(n.fracEnd - n.fracFrom)
        + DigitsValue(s, n.fracFrom, n.fracEnd)
ScannedExponent(s, n) ==
    (IF n.expNeg THEN -1 ELSE 1) * DigitsValue(s, n.expFrom, n.expEnd)
        - (n.fracEnd - n.fracFrom)

\* the f64 that m * 10^e parses to, or <<"Inf">>
FloatOf(neg, m, e) ==
    IF ~is_finite(m, e) THEN <<"Inf">>
    ELSE IF Underflows(m, e) THEN NormFloat(neg, 0, 0)
    ELSE NormFloat(neg, m, e)

\* the f64 the scanned number n parses to, or <<"Inf">>
ScannedFloat(s, n, neg) == FloatOf(neg, ScannedMantissa(s, n), ScannedExponent(s, n))

---------------------------------------------------------------------------
(* serde_json::from_str::<Value>: the JSON grammar.  A parse step returns  *)
(* <<"Ok", value, next index>> or <<"Err">>.  String escapes \u are not     *)
(* modelled (no drawn input holds one).                                    *)

JsonErr == <<"Err">>

\* the literal word w at index i of s
HasWord(s, i, w) ==
    i + Len(w) - 1 <= Len(s) /\ SubSeq(s, i, i + Len(w) - 1) = w

\* the JSON number scanned as n at i; neg when a '-' came before it
JsonNumberOf(s, i, neg, n) ==
    IF n.intEnd = n.intFrom \/ (n.intEnd - n.intFrom > 1 /\ s[i] = "0")
       \/ (n.hasDot /\ n.fracEnd = n.fracFrom)
       \/ (n.hasExp /\ n.expEnd = n.expFrom)
    THEN JsonErr
    ELSE IF ~n.hasDot /\ ~n.hasExp
    THEN IF neg /\ DigitsValue(s, n.intFrom, n.intEnd) = 0
         THEN <<"Ok", <<"Number", NormFloat(TRUE, 0, 0)>>, n.intEnd>>
         ELSE <<"Ok", <<"Number", <<"Int", neg, DigitsValue(s, n.intFrom, n.intEnd)>>>>, n.intEnd>>
    ELSE IF ScannedFloat(s, n, neg) = <<"Inf">>
    THEN JsonErr    \* "number out of range"
    ELSE <<"Ok", <<"Number", ScannedFloat(s, n, neg)>>, n.expEnd>>

JsonNumber(s, i, neg) == JsonNumberOf(s, i, neg, ScanNumber(s, i))

JsonEscapes == <<<<"\"", "\"">>, <<BS, BS>>, <<"/", "/">>, <<"n", "\n">>,
                 <<"t", "\t">>, <<"r", "\r">>>>
IsJsonEscape(ch) == \E k \in 1..Len(JsonEscapes) : JsonEscapes[k][1] = ch
JsonEscaped(ch) == JsonEscapes[CHOOSE k \in 1..Len(JsonEscapes) : JsonEscapes[k][1] = ch][2]

RECURSIVE JsonStringBody(_, _, _)
\* after the opening quote: the characters up to the closing quote
JsonStringBody(s, i, acc) ==
    IF i > Len(s) THEN JsonErr
    ELSE IF s[i] = "\"" THEN <<"Ok", acc, i + 1>>
    ELSE IF s[i] \in {"\t", "\n", "\r"} THEN JsonErr
    ELSE IF s[i] = BS
    THEN IF i + 1 <= Len(s) /\ IsJsonEscape(s[i + 1])
         THEN JsonStringBody(s, i + 2, Append(acc, JsonEscaped(s[i + 1])))
         ELSE JsonErr
    ELSE JsonStringBody(s, i + 1, Append(acc, s[i]))

\* a parsed string body as a String value
JsonStringOf(str) ==
    IF IsOk(str) THEN <<"Ok", String(str[2]), str[3]>> ELSE JsonErr

RECURSIVE JsonValueAt(_, _)
RECURSIVE JsonElementsAfter(_, _, _)
RECURSIVE JsonMembersAt(_, _, _)
RECURSIVE JsonMemberColon(_, _, _)
RECURSIVE JsonMemberEnd(_, _, _, _)

\* a value starting at i, a character that is no whitespace
JsonValueAt(s, i) ==
    IF i > Len(s) THEN JsonErr
    ELSE IF s[i] = "n" THEN (IF HasWord(s, i, <<"n", "u", "l", "l">>)
                             THEN <<"Ok", Null, i + 4>> ELSE JsonErr)
    ELSE IF s[i] = "t" THEN (IF HasWord(s, i, <<"t", "r", "u", "e">>)
                             THEN <<"Ok", Bool(TRUE), i + 4>> ELSE JsonErr)
    ELSE IF s[i] = "f" THEN (IF HasWord(s, i, <<"f", "a", "l", "s", "e">>)
                             THEN <<"Ok", Bool(FALSE), i + 5>> ELSE JsonErr)
    ELSE IF s[i] = "-" \/ IsDigit(s[i])
    THEN JsonNumber(s, IF s[i] = "-" THEN i + 1 ELSE i, s[i] = "-")
    ELSE IF s[i] = "\"" THEN JsonStringOf(JsonStringBody(s, i + 1, <<>>))
    ELSE IF s[i] = "["
    THEN IF SkipWs(s, i + 1) <= Len(s) /\ s[SkipWs(s, i + 1)] = "]"
         THEN <<"Ok", Array(<<>>), SkipWs(s, i + 1) + 1>>
         ELSE JsonElementsAfter(s, <<>>, JsonValueAt(s, SkipWs(s, i + 1)))
    ELSE IF s[i] = "{"
    THEN IF SkipWs(s, i + 1) <= Len(s) /\ s[SkipWs(s, i + 1)] = "}"
         THEN <<"Ok", Object(EmptyMap), SkipWs(s, i + 1) + 1>>
         ELSE JsonMembersAt(s, SkipWs(s, i + 1), EmptyMap)
    ELSE JsonErr

\* an array after its element v: a ']' ends it, a ',' brings the next element
JsonElementsAfter(s, acc, v) ==
    IF ~IsOk(v) THEN JsonErr
    ELSE IF SkipWs(s, v[3]) > Len(s) THEN JsonErr
    ELSE IF s[SkipWs(s, v[3])] = "]"
    THEN <<"Ok", Array(Append(acc, v[2])), SkipWs(s, v[3]) + 1>>
    ELSE IF s[SkipWs(s, v[3])] = ","
    THEN JsonElementsAfter(s, Append(acc, v[2]),
                           JsonValueAt(s, SkipWs(s, SkipWs(s, v[3]) + 1)))
    ELSE JsonErr

\* the members of an object from i (no whitespace) on, up to its '}';
\* a repeated name keeps its last value
JsonMembersAt(s, i, acc) ==
    IF i > Len(s) \/ s[i] # "\"" THEN JsonErr
    ELSE JsonMemberColon(s, acc, JsonStringBody(s, i + 1, <<>>))

\* after the member's name: the ':' and the value
JsonMemberColon(s, acc, name) ==
    IF ~IsOk(name) THEN JsonErr
    ELSE IF SkipWs(s, name[3]) > Len(s) \/ s[SkipWs(s, name[3])] # ":" THEN JsonErr
    ELSE JsonMemberEnd(s, acc, name[2], JsonValueAt(s, SkipWs(s, SkipWs(s, name[3]) + 1)))

\* after the member's value v: a '}' ends the object, a ',' brings the next member
JsonMemberEnd(s, acc, name, v) ==
    IF ~IsOk(v) THEN JsonErr
    ELSE IF SkipWs(s, v[3]) > Len(s) THEN JsonErr
    ELSE IF s[SkipWs(s, v[3])] = "}"
    THEN <<"Ok", Object(MapInsert(acc, name, v[2])), SkipWs(s, v[3]) + 1>>
    ELSE IF s[SkipWs(s, v[3])] = ","
    THEN JsonMembersAt(s, SkipWs(s, SkipWs(s, v[3]) + 1), MapInsert(acc, name, v[2]))
    ELSE JsonErr

\* one value, then only whitespace
JsonDocument(s, v) ==
    IF IsOk(v) /\ SkipWs(s, v[3]) > Len(s) THEN <<"Ok", v[2]>> ELSE JsonErr

\* serde_json::from_str
serde_json_from_str(s) == JsonDocument(s, JsonValueAt(s, SkipWs(s, 1)))

---------------------------------------------------------------------------
(* str::parse::<i64>, str::parse::<f64>, str::parse::<bool> *)

IsSigned(s) == s # <<>> /\ s[1] \in {"+", "-"}
IsNegative(s) == s # <<>> /\ s[1] = "-"
\* where the text after an optional sign starts
AfterSign(s) == IF IsSigned(s) THEN 2 ELSE 1

\* [+|-] digits, nothing else
parse_i64(s) ==
    IF AfterSign(s) <= Len(s) /\ SkipDigits(s, AfterSign(s)) = Len(s) + 1
    THEN <<"Ok", (IF IsNegative(s) THEN -1 ELSE 1) * DigitsValue(s, AfterSign(s), Len(s) + 1)>>
    ELSE <<"Err">>

LowerCase(ch) ==
    IF ch = "I" THEN "i" ELSE IF ch = "N" THEN "n" ELSE IF ch = "F" THEN "f"
    ELSE IF ch = "A" THEN "a" ELSE IF ch = "T" THEN "t" ELSE IF ch = "Y" THEN "y"
    ELSE ch

NonFiniteWords == {<<"i", "n", "f">>, <<"i", "n", "f", "i", "n", "i", "t", "y">>,
                   <<"n", "a", "n">>}

\* the text from index from on, in lower case
LowerFrom(s, from) == [k \in 1..(Len(s) - from + 1) |-> LowerCase(s[from + k - 1])]

\* the number scanned as n after the sign, when it is the whole text with a
\* digit before or after the point
FloatOfScan(s, n) ==
    IF (n.intEnd - n.intFrom) + (n.fracEnd - n.fracFrom) = 0
       \/ (n.hasExp /\ n.expEnd = n.expFrom)
       \/ n.expEnd # Len(s) + 1
    THEN <<"Err">>
    ELSE <<"Ok", ScannedFloat(s, n, IsNegative(s))>>

\* [+|-] then inf, infinity or nan in any case, or digits [. digits] [exponent]:
\* <<"Ok", f>> with f a float or <<"Inf">> (any non-finite value)
parse_f64(s) ==
    IF LowerFrom(s, AfterSign(s)) \in NonFiniteWords
    THEN <<"Ok", <<"Inf">>>>
    ELSE FloatOfScan(s, ScanNumber(s, AfterSign(s)))

parse_bool(s) ==
    IF s = <<"t", "r", "u", "e">> THEN <<"Ok", TRUE>>
    ELSE IF s = <<"f", "a", "l", "s", "e">> THEN <<"Ok", FALSE>>
    ELSE <<"Err">>

---------------------------------------------------------------------------
(* json_to_tera_value and string_to_tera_value *)

RECURSIVE json_to_tera_value(_)
json_to_tera_value(value) ==
    IF value[1] = "Number"
    THEN IF value[2][1] = "Int"
         THEN IntNumber((IF value[2][2] THEN -1 ELSE 1) * value[2][3])
         ELSE value      \* a Number holds no NaN or infinity: from_f64 gives it back
    ELSE IF value[1] = "Array"
    THEN Array([k \in 1..Len(value[2]) |-> json_to_tera_value(value[2][k])])
    ELSE IF value[1] = "Object"
    THEN Object([k \in DOMAIN value[2] |-> json_to_tera_value(value[2][k])])
    ELSE value

\* a variant that tries the float before the integer
FirstSuccess_FloatFirst(value, json, int_val, float_val, bool_val) ==
    IF IsOk(json) THEN json_to_tera_value(json[2])
    ELSE IF IsOk(float_val) /\ float_val[2] # <<"Inf">> THEN <<"Number", float_val[2]>>
    ELSE IF IsOk(int_val) THEN IntNumber(int_val[2])
    ELSE IF IsOk(bool_val) THEN Bool(bool_val[2])
    ELSE String(value)

\* the first step that succeeds, in the order of string_to_tera_value
FirstSuccess(value, json, int_val, float_val, bool_val) ==
    IF IsOk(json) THEN json_to_tera_value(json[2])
    ELSE IF IsOk(int_val) THEN IntNumber(int_val[2])
    ELSE IF IsOk(float_val) /\ float_val[2] # <<"Inf">> THEN <<"Number", float_val[2]>>
    ELSE IF IsOk(bool_val) THEN Bool(bool_val[2])
    ELSE String(value)

string_to_tera_value(value) ==
    FirstSuccess(value, serde_json_from_str(value), parse_i64(value),
                 parse_f64(value), parse_bool(value))

---------------------------------------------------------------------------
(* Nested keys: insert_nested_variable, build_nested_object,               *)
(* merge_nested_value.  Indices into parts are 0-based as in the code.     *)

RECURSIVE SplitOn(_, _)
\* str::split(ch): cut at every ch; n occurrences give n + 1 pieces
SplitOn(s, ch) ==
    IF \E i \in 1..Len(s) : s[i] = ch
    THEN LET i == CHOOSE i \in 1..Len(s) : s[i] = ch /\ \A j \in 1..(i - 1) : s[j] # ch
         IN  <<SubSeq(s, 1, i - 1)>> \o SplitOn(SubSeq(s, i + 1, Len(s)), ch)
    ELSE <<s>>

\* str::contains(ch)
Contains(s, ch) == \E i \in 1..Len(s) : s[i] = ch

\* a variant that leaves out the levels between the root and the leaf
build_nested_object_Flat(parts, index, value) == value

RECURSIVE build_nested_object(_, _, _)
build_nested_object(parts, index, value) ==
    IF index = Len(parts) - 1
    THEN value
    ELSE LET next_part == parts[index + 2]
             nested_value == build_nested_object(parts, index + 1, value)
         IN  Object(MapInsert(EmptyMap, next_part, nested_value))

\* a variant whose terminal step starts a fresh object, dropping the siblings
merge_nested_value_Fresh(obj, parts, index, value) ==
    MapInsert(EmptyMap, parts[index + 1],
              IF index = Len(parts) - 1 THEN value
              ELSE build_nested_object(parts, index, value))

RECURSIVE merge_nested_value_KeepScalar(_, _, _, _)
\* a variant that leaves a field alone when it holds something other than an
\* object and the path goes on below it
merge_nested_value_KeepScalar(obj, parts, index, value) ==
    LET current_part == parts[index + 1]
    IN  IF index = Len(parts) - 1
        THEN MapInsert(obj, current_part, value)
        ELSE IF current_part \in DOMAIN obj
        THEN IF IsObject(obj[current_part])
             THEN MapInsert(obj, current_part,
                      Object(merge_nested_value_KeepScalar(obj[current_part][2], parts, index + 1, value)))
             ELSE obj
        ELSE MapInsert(obj, current_part, build_nested_object(parts, index, value))

RECURSIVE merge_nested_value(_, _, _, _)
\* the object obj after the merge
merge_nested_value(obj, parts, index, value) ==
    LET current_part == parts[index + 1]
    IN  IF index = Len(parts) - 1
        THEN MapInsert(obj, current_part, value)
        ELSE IF current_part \in DOMAIN obj
        THEN IF IsObject(obj[current_part])
             THEN LET new_obj == merge_nested_value(obj[current_part][2], parts, index + 1, value)
                  IN  MapInsert(obj, current_part, Object(new_obj))
             ELSE MapInsert(obj, current_part, build_nested_object(parts, index, value))
        ELSE MapInsert(obj, current_part, build_nested_object(parts, index, value))

\* a variant that always puts a newly built object under the root key
insert_nested_variable_Replace(vs, key_path, value) ==
    LET parts == SplitOn(key_path, ".")
    IN  MapInsert(vs, parts[1], build_nested_object(parts, 0, value))

\* the namespace after the insertion
insert_nested_variable(vs, key_path, value) ==
    LET parts == SplitOn(key_path, ".")
    IN  IF Len(parts) = 1
        THEN MapInsert(vs, parts[1], value)
        ELSE IF parts[1] \in DOMAIN vs
        THEN IF IsObject(vs[parts[1]])
             THEN LET new_obj == merge_nested_value(vs[parts[1]][2], parts, 1, value)
                  IN  MapInsert(vs, parts[1], Object(new_obj))
             ELSE MapInsert(vs, parts[1], build_nested_object(parts, 0, value))
        ELSE MapInsert(vs, parts[1], build_nested_object(parts, 0, value))

---------------------------------------------------------------------------
(* load_cli_variables.  A pass returns <<"Ok", map>>, <<"Err", e, map>> or  *)
(* <<"Panic", map>>, map being the caller's map as the pass left it.        *)

\* a variant in which an entry that is already there is kept
InsertValue_KeepFirst(vs, key, tera_value) ==
    IF key \in DOMAIN vs THEN vs
    ELSE IF Contains(key, ".") THEN insert_nested_variable(vs, key, tera_value)
    ELSE MapInsert(vs, key, tera_value)

\* the end of the inner loop's body: insert under a dotted or a plain key
InsertValue(vs, key, tera_value) ==
    IF Contains(key, ".")
    THEN insert_nested_variable(vs, key, tera_value)
    ELSE MapInsert(vs, key, tera_value)

\* a variant that resolves the escapes of the key as it does those of the value
InsertPair_UnescapedKey(vs, key, value_with_escapes) ==
    InsertValue(vs, unescape_value(key), string_to_tera_value(unescape_value(value_with_escapes)))

\* a variant that stores every key, dotted or not, as one flat name
InsertPair_PlainKey(vs, key, value_with_escapes) ==
    MapInsert(vs, key, string_to_tera_value(unescape_value(value_with_escapes)))

\* the body of the inner loop for one accepted pair
InsertPair(vs, key, value_with_escapes) ==
    InsertValue(vs, key, string_to_tera_value(unescape_value(value_with_escapes)))

RECURSIVE LoadTokens(_, _, _)
RECURSIVE LoadToken(_, _, _, _)
\* a variant that skips a token it cannot parse and goes on
LoadToken_SkipBad(vs, var_parts, k, tok) ==
    IF IsErr(tok) THEN LoadTokens(vs, var_parts, k + 1)
    ELSE IF IsPanic(tok) THEN <<"Panic", vs>>
    ELSE LoadTokens(InsertPair(vs, tok[2], tok[3]), var_parts, k + 1)

\* the inner loop, from token k of var_parts on
LoadTokens(vs, var_parts, k) ==
    IF k > Len(var_parts)
    THEN <<"Ok", vs>>
    ELSE LoadToken(vs, var_parts, k, ParseToken(var_parts[k]))

\* one turn of the inner loop, tok the parse of token k
LoadToken(vs, var_parts, k, tok) ==
    IF IsErr(tok) THEN <<"Err", tok[2], vs>>
    ELSE IF IsPanic(tok) THEN <<"Panic", vs>>
    ELSE LoadTokens(InsertPair(vs, tok[2], tok[3]), var_parts, k + 1)

RECURSIVE LoadDefinitions(_, _, _)
RECURSIVE LoadDefinition(_, _, _, _)
RECURSIVE LoadRest(_, _, _)
\* the outer loop, from definition d of cli_vars on
LoadDefinitions(vs, cli_vars, d) ==
    IF d > Len(cli_vars)
    THEN <<"Ok", vs>>
    ELSE LoadDefinition(vs, cli_vars, d, split_unescaped(cli_vars[d], ","))

\* one turn of the outer loop, var_parts the tokens of definition d
LoadDefinition(vs, cli_vars, d, var_parts) ==
    IF IsPanic(var_parts) THEN <<"Panic", vs>>
    ELSE LoadRest(cli_vars, d, LoadTokens(vs, var_parts[2], 1))

\* after the inner loop: on to the next definition, or out with the error
LoadRest(cli_vars, d, done) ==
    IF IsOk(done) THEN LoadDefinitions(done[2], cli_vars, d + 1) ELSE done

\* a variant that fills a new map and hands that back
load_cli_variables_Fresh(vs, cli_vars) == LoadDefinitions(EmptyMap, cli_vars, 1)

load_cli_variables(vs, cli_vars) == LoadDefinitions(vs, cli_vars, 1)

\* a variant that gives the caller's map back as it was when it fails
collect_cli_variables_Rollback(vs, cli_vars) ==
    IF IsErr(load_cli_variables(vs, cli_vars))
    THEN <<"Err", load_cli_variables(vs, cli_vars)[2], vs>>
    ELSE load_cli_variables(vs, cli_vars)

collect_cli_variables(vs, cli_vars) == load_cli_variables(vs, cli_vars)

---------------------------------------------------------------------------
(* load_env_variables *)

None == <<"None">>
Some(x) == <<"Some", x>>
IsSome(o) == o[1] = "Some"

RECURSIVE TrimStart(_)
TrimStart(s) == IF s # <<>> /\ Head(s) \in WhiteSpace THEN TrimStart(Tail(s)) ELSE s
RECURSIVE TrimEnd(_)
TrimEnd(s) ==
    IF s # <<>> /\ s[Len(s)] \in WhiteSpace THEN TrimEnd(SubSeq(s, 1, Len(s) - 1)) ELSE s
\* str::trim
Trim(s) == TrimEnd(TrimStart(s))

\* std::env::var(name) against the environment env
\* a variant that reads an unset variable as the empty text
EnvVar_EmptyWhenUnset(env, name) ==
    <<"Ok", IF name \in DOMAIN env THEN env[name] ELSE <<>>>>

\* std::env::var(name)
EnvVar(env, name) == IF name \in DOMAIN env THEN <<"Ok", env[name]>> ELSE <<"Err">>

\* a variant that reads a dot in the name as a path
LoadEnvName_Nested(vs, var_name, value) ==
    IF IsOk(value)
    THEN InsertValue(vs, var_name, string_to_tera_value(unescape_value(value[2])))
    ELSE vs

\* the body of the for loop: insert the variable when it is set
LoadEnvName(vs, var_name, value) ==
    IF IsOk(value)
    THEN MapInsert(vs, var_name, string_to_tera_value(unescape_value(value[2])))
    ELSE vs

RECURSIVE LoadEnvNames(_, _, _, _)
\* the for loop over var_names, from name k on
LoadEnvNames(vs, env, var_names, k) ==
    IF k > Len(var_names)
    THEN vs
    ELSE LoadEnvNames(LoadEnvName(vs, var_names[k], EnvVar(env, var_names[k])),
                      env, var_names, k + 1)

\* env_vars.split(',').map(|s| s.trim())
EnvVarNames(env_vars) ==
    [k \in 1..Len(SplitOn(env_vars, ",")) |-> Trim(SplitOn(env_vars, ",")[k])]

load_env_variables(vs, env, cli_env) ==
    IF IsSome(cli_env)
    THEN <<"Ok", LoadEnvNames(vs, env, EnvVarNames(cli_env[2]), 1)>>
    ELSE <<"Ok", vs>>

collect_env_variables(vs, env, cli_env) == load_env_variables(vs, env, cli_env)

---------------------------------------------------------------------------
(* load_config_file.  A file system maps a path to the file's content; a   *)
(* content is what each external decoder makes of it:                      *)
(* [json, yaml, toml |-> <<"Ok", mapping>> or <<"Err", message>>].          *)

\* Path::extension as a string, "" when there is none
Extension(path) ==
    LET comps == SplitOn(path, "/")
        name == comps[Len(comps)]
        dots == SplitOn(name, ".")
    IN  IF Len(dots) = 1 \/ (Len(dots) = 2 /\ dots[1] = <<>>) \/ name = <<".", ".">>
        THEN <<>>
        ELSE dots[Len(dots)]

\* std::fs::read_to_string
read_to_string(fs, path) ==
    IF path \in DOMAIN fs
    THEN <<"Ok", fs[path]>>
    ELSE <<"Err", <<"IoError", <<"No such file or directory (os error 2)">>>>>>

\* a variant that turns an I/O error into a ConfigParseError
with_context_AsConfigError(res, context) ==
    IF IsErr(res) /\ res[2][1] = "IoError"
    THEN <<"Err", <<"ConfigParseError", res[2][2]>>>>
    ELSE res

\* ContextExt::with_context: the context is not used; an I/O error becomes a
\* FileSystemError with the I/O error's own text, other kinds keep kind and text
with_context(res, context) ==
    IF IsErr(res)
    THEN IF res[2][1] = "IoError"
         THEN <<"Err", <<"FileSystemError", res[2][2]>>>>
         ELSE res
    ELSE res

\* format!("Failed to read config file: {:?}", config_path)
ReadContext(config_path) ==
    <<"Failed to read config file: ", "\"">> \o config_path \o <<"\"">>

\* a variant that takes any other extension for JSON
create_loader_DefaultJson(ext) ==
    IF ext = <<"y", "a", "m", "l">> \/ ext = <<"y", "m", "l">> THEN Some("yaml")
    ELSE IF ext = <<"t", "o", "m", "l">> THEN Some("toml")
    ELSE Some("json")

\* ConfigLoaderFactory::create_loader
create_loader(ext) ==
    IF ext = <<"j", "s", "o", "n">> THEN Some("json")
    ELSE IF ext = <<"y", "a", "m", "l">> \/ ext = <<"y", "m", "l">> THEN Some("yaml")
    ELSE IF ext = <<"t", "o", "m", "l">> THEN Some("toml")
    ELSE None

UnsupportedFormatMessage ==
    <<"Unsupported config file format. Use ", ".", "j", "s", "o", "n", ", ",
      ".", "y", "a", "m", "l", ", ", ".", "y", "m", "l", ", or ",
      ".", "t", "o", "m", "l">>

\* ConfigLoader::load_config of the three loaders
load_config(loader, content) ==
    LET decoded == IF loader = "json" THEN content.json
                   ELSE IF loader = "yaml" THEN content.yaml
                   ELSE content.toml
    IN  IF IsOk(decoded) THEN decoded
        ELSE <<"Err", ConfigParseError(decoded[2])>>

\* mutant: a config key does not replace an entry that is already there
InsertConfig_KeepExisting(vs, config) ==
    [k \in (DOMAIN vs) \cup (DOMAIN config) |->
        IF k \in DOMAIN vs THEN vs[k] ELSE json_to_tera_value(config[k])]

RECURSIVE InsertConfigKeys_Nested(_, _, _)
\* a variant that reads a dot in a config key as a path: the keys one by one
InsertConfigKeys_Nested(vs, config, keys) ==
    IF keys = {} THEN vs
    ELSE LET k == CHOOSE k \in keys : TRUE
         IN  InsertConfigKeys_Nested(InsertValue(vs, k, json_to_tera_value(config[k])),
                                     config, keys \ {k})

InsertConfig_Nested(vs, config) == InsertConfigKeys_Nested(vs, config, DOMAIN config)

\* the for loop over config.variables
InsertConfig(vs, config) ==
    [k \in (DOMAIN vs) \cup (DOMAIN config) |->
        IF k \in DOMAIN config THEN json_to_tera_value(config[k]) ELSE vs[k]]

\* a variant that hands back an emptied map when the content does not decode
LoadWith_ClearOnError(vs, config) ==
    IF IsErr(config) THEN <<"Err", config[2], EmptyMap>>
    ELSE <<"Ok", InsertConfig(vs, config[2])>>

\* the end of load_config_file: decode, then insert every key
LoadWith(vs, config) ==
    IF IsErr(config) THEN <<"Err", config[2], vs>>
    ELSE <<"Ok", InsertConfig(vs, config[2])>>

\* load_config_file once the file is read: pick the loader by extension
LoadContent(vs, config_path, content) ==
    IF IsErr(content) THEN <<"Err", content[2], vs>>
    ELSE IF ~IsSome(create_loader(Extension(config_path)))
    THEN <<"Err", ConfigParseError(UnsupportedFormatMessage), vs>>
    ELSE LoadWith(vs, load_config(create_loader(Extension(config_path))[2], content[2]))

load_config_file(vs, fs, config_path) ==
    LoadContent(vs, config_path,
                with_context(read_to_string(fs, config_path), ReadContext(config_path)))

collect_config_variables(vs, fs, config_path) == load_config_file(vs, fs, config_path)

---------------------------------------------------------------------------
(* Inputs of the runs *)

\* -D definitions; in the last one U00E9 is a two-byte character
\*   X=cli
D_Xcli == <<"X", "=", "c", "l", "i">>
\*   X.a=1
D_Xdot == <<"X", ".", "a", "=", "1">>
\*   foo.bar=first
D_bar == <<"f", "o", "o", ".", "b", "a", "r", "=", "f", "i", "r", "s", "t">>
\*   foo.baz=second
D_baz == <<"f", "o", "o", ".", "b", "a", "z", "=", "s", "e", "c", "o", "n", "d">>
\*   foo.bar=1,foo.baz=2
D_barbaz ==
    <<"f", "o", "o", ".", "b", "a", "r", "=", "1", ",", "f", "o", "o", ".", "b", "a",
      "z", "=", "2">>
\*   foo.g.h=3
D_gh == <<"f", "o", "o", ".", "g", ".", "h", "=", "3">>
\*   foo.g.k=4
D_gk == <<"f", "o", "o", ".", "g", ".", "k", "=", "4">>
\*   X=1,Y=2
D_two == <<"X", "=", "1", ",", "Y", "=", "2">>
\*   a=
D_noval == <<"a", "=">>
\*   nov
D_nosep == <<"n", "o", "v">>
\*   Y=2,=v
D_partial == <<"Y", "=", "2", ",", "=", "v">>
\*   <U00E9>a<U00E9>x,b=1
D_multi == <<"U00E9", "a", "U00E9", "x", ",", "b", "=", "1">>

Definitions ==
    {D_Xcli, D_Xdot, D_bar, D_baz, D_barbaz, D_gh,
     D_gk, D_two, D_noval, D_nosep, D_partial, D_multi}

\* every list of at most n elements of S
SeqsUpTo(S, n) == UNION {[1..k -> S] : k \in 0..n}

\* --env arguments: "X, N", "foo" (or none)
K_X == <<"X">>
K_foo == <<"f", "o", "o">>
EnvArgs == {None, Some(<<"X", ",", " ", "N">>), Some(K_foo)}

\* env\{curly\}brackets
V_curly ==
    <<"e", "n", "v", BS, "{", "c", "u", "r", "l", "y", BS, "}", "b", "r", "a", "c", "k",
      "e", "t", "s">>

\* process environments: X=env foo={"z":0} C=env\{curly\}brackets, and
\* N=42 X=e\{c\} a.b=7
Environs ==
    { (K_X :> <<"e", "n", "v">>) @@ (K_foo :> <<"{", "\"", "z", "\"", ":", "0", "}">>)
      @@ (<<"C">> :> V_curly),
      (<<"N">> :> <<"4", "2">>) @@ (K_X :> <<"e", BS, "{", "c", BS, "}">>)
      @@ (<<"a", ".", "b">> :> <<"7">>) }

\* further --env lists for single calls: "a.b,C" and "N"
CallEnvArgs == EnvArgs \cup {Some(<<"a", ".", "b", ",", "C">>), Some(<<"N">>)}

\* config paths: c.json, c.txt, c (readable, well formed), b.yml (readable,
\* malformed), m.json (no such file)
P_json == <<"c", ".", "j", "s", "o", "n">>
P_txt == <<"c", ".", "t", "x", "t">>
P_bad == <<"b", ".", "y", "m", "l">>
P_missing == <<"m", ".", "j", "s", "o", "n">>
ConfigArgs == {None, Some(P_json), Some(P_txt), Some(P_bad), Some(P_missing)}

\* a JSON document {"X": "cfg", "foo": {"bar": 0, "z": 9}, "a.b": 1}
GoodMapping ==
    (K_X :> String(<<"c", "f", "g">>))
    @@ (K_foo :> Object((<<"b", "a", "r">> :> <<"Number", <<"Int", FALSE, 0>>>>)
                          @@ (<<"z">> :> <<"Number", <<"Int", FALSE, 9>>>>)))
    @@ (<<"a", ".", "b">> :> <<"Number", <<"Int", FALSE, 1>>>>)
GoodContent ==
    [json |-> <<"Ok", GoodMapping>>, yaml |-> <<"Ok", GoodMapping>>,
     toml |-> <<"Err", <<"TOML parse error at line 1, column 1">>>>]
BadContent ==
    [json |-> <<"Err", <<"expected value at line 1 column 1">>>>,
     yaml |-> <<"Err", <<"did not find expected node content">>>>,
     toml |-> <<"Err", <<"TOML parse error at line 1, column 1">>>>]

\* further paths for single calls: c (no extension), .json (a name that is all
\* extension-less), b.txt (readable, malformed in every format)
P_noext == <<"c">>
P_hidden == <<".", "j", "s", "o", "n">>
P_badtxt == <<"b", ".", "t", "x", "t">>
CallConfigPaths == {P_json, P_txt, P_bad, P_missing, P_noext, P_hidden, P_badtxt}

FileSystems ==
    { (P_json :> GoodContent) @@ (P_txt :> GoodContent) @@ (P_bad :> BadContent)
      @@ (P_noext :> GoodContent) @@ (P_hidden :> GoodContent) @@ (P_badtxt :> BadContent) }

---------------------------------------------------------------------------
(* collect_variables: one run, pass by pass *)

Init ==
    /\ pc = "env"
    /\ cli \in [env : EnvArgs, config : ConfigArgs, variables : SeqsUpTo(Definitions, MaxDefs)]
    /\ environ \in Environs
    /\ files \in FileSystems
    /\ variables = EmptyMap
    /\ before = EmptyMap
    /\ result = None
    /\ input = <<>>
    /\ output = None

\* 1. if cli.env.is_some() { collect_env_variables(&mut variables, cli)?; }
EnvPass ==
    /\ pc = "env"
    /\ variables' = (IF IsSome(cli.env)
                     THEN collect_env_variables(variables, environ, cli.env)[2]
                     ELSE variables)
    /\ before' = variables
    /\ pc' = "config"
    /\ UNCHANGED <<cli, environ, files, result, input, output>>

\* how a pass that returned r leaves the run: on to the stage after it, or
\* out of collect_variables with the error (or the panic)
PassReturns(r, after) ==
    /\ before' = variables
    /\ IF IsOk(r)
       THEN /\ variables' = r[2]
            /\ pc' = after
            /\ result' = IF after = "done" THEN <<"Ok", r[2]>> ELSE result
       ELSE IF IsErr(r)
       THEN /\ variables' = r[3]
            /\ pc' = "failed"
            /\ result' = <<"Err", r[2]>>
       ELSE /\ variables' = r[2]
            /\ pc' = "panicked"
            /\ result' = <<"Panic">>

\* 2. if let Some(config_path) = &cli.config { collect_config_variables(..)?; }
ConfigPass ==
    /\ pc = "config"
    /\ PassReturns(IF IsSome(cli.config)
                   THEN collect_config_variables(variables, files, cli.config[2])
                   ELSE <<"Ok", variables>>, "cli")
    /\ UNCHANGED <<cli, environ, files, input, output>>

\* 3. collect_cli_variables(&mut variables, &cli.variables)?; Ok(variables)
CliPass ==
    /\ pc = "cli"
    /\ PassReturns(collect_cli_variables(variables, cli.variables), "done")
    /\ UNCHANGED <<cli, environ, files, input, output>>

Next == EnvPass \/ ConfigPass \/ CliPass

Spec == Init /\ [][Next]_vars

---------------------------------------------------------------------------
(* Inputs of the pure functions *)

E_three_pairs ==
    <<"a", "=", "1", ",", "i", "t", "e", "m", "s", "=", "[", "1", ",", "2", ",", "3",
      "]", ",", "b", "=", "2">>
E_escaped_pairs ==
    <<"a", "=", "H", "e", "l", "l", "o", BS, ",", "w", "o", "r", "l", "d", ",", "b",
      "=", "Y", "o", "u", BS, "=", "r", "o", "c", "k">>
E_novaluehere == <<"n", "o", "v", "a", "l", "u", "e", "h", "e", "r", "e">>
E_brackets ==
    <<"v", "a", "l", "u", "e", "=", BS, "[", "s", "t", "a", "r", "t", BS, "]", "m",
      "i", "d", "d", "l", "e", BS, "[", "e", "n", "d", BS, "]">>
E_brackets_value ==
    <<BS, "[", "s", "t", "a", "r", "t", BS, "]", "m", "i", "d", "d", "l", "e", BS,
      "[", "e", "n", "d", BS, "]">>
E_42 == <<"4", "2">>
E_3_14 == <<"3", ".", "1", "4">>
E_true == <<"t", "r", "u", "e">>
E_false == <<"f", "a", "l", "s", "e">>
E_hello == <<"h", "e", "l", "l", "o">>
E_array == <<"[", "1", ",", "2", "]">>
E_inf == <<"i", "n", "f">>
E_NaN == <<"N", "a", "N">>
E_neg_infinity == <<"-", "i", "n", "f", "i", "n", "i", "t", "y">>
E_1e999 == <<"1", "e", "9", "9", "9">>
E_plus42 == <<"+", "4", "2">>
E_042 == <<"0", "4", "2">>
E_half == <<"+", ".", "5">>
E_null == <<"n", "u", "l", "l">>
E_object == <<"{", "\"", "a", "\"", ":", "1", "}">>
E_spaced == <<" ", "4", "2", " ">>
E_1e2 == <<"1", "e", "2">>
E_True == <<"T", "r", "u", "e">>
E_excess_closer == <<"a", "=", "]", ",", "b", "=", "2">>
E_trailing_comma == <<"a", "=", "1", ",">>
E_multi_comma == <<"U00E9", ",", "b">>
E_multi_slice == <<"U00E9", "a", "U00E9", "x", ",", "b">>
E_multi_key == <<"U00E9", "U20AC", "=", "1">>
E_later_equals == <<"a", BS, "=", "b", "=", "c", "=", "d">>
\*   a\=b=c
E_escaped_key == <<"a", BS, "=", "b", "=", "c">>
\*   .a=1   a.=1   a..b=1
E_empty_first == <<".", "a", "=", "1">>
E_empty_last == <<"a", ".", "=", "1">>
E_empty_middle == <<"a", ".", ".", "b", "=", "1">>
E_nested_object ==
    <<"o", "=", "{", "\"", "a", "\"", ":", "[", "1", ",", "{", "\"", "b", "\"", ":",
      "2", "}", "]", "}", ",", "z", "=", "1">>

Examples ==
    {E_three_pairs, E_escaped_pairs, E_novaluehere, E_brackets, E_brackets_value,
     E_42, E_3_14, E_true, E_false, E_hello,
     E_array, E_inf, E_NaN, E_neg_infinity, E_1e999,
     E_plus42, E_042, E_half, E_null, E_object,
     E_spaced, E_1e2, E_True, E_excess_closer, E_trailing_comma,
     E_multi_comma, E_multi_slice, E_multi_key, E_later_equals, E_nested_object,
     E_escaped_key, E_empty_first, E_empty_last, E_empty_middle}

\* every string of at most n characters of A
Strings(A, n) == UNION {[1..k -> A] : k \in 0..n}

SplitAlphabet == {"a", ",", BS, "[", "]", "{", "}", "U00E9"}
TokenAlphabet == {"a", "=", BS, ".", ",", "U00E9"}
UnescapeAlphabet == {BS, ",", "=", "]", "n"}
CoerceAlphabet == {"1", "0", "-", "+", ".", "e", "[", "]", ","}

PureInputs ==
    Strings(SplitAlphabet, MaxLen) \cup Strings(TokenAlphabet, MaxLen)
    \cup Strings(UnescapeAlphabet, MaxLen) \cup Strings(CoerceAlphabet, MaxLen)
    \cup Examples

---------------------------------------------------------------------------
(* The pure functions, each applied to one input *)

InitPure ==
    /\ pc = "pure"
    /\ input \in PureInputs
    /\ output = None
    /\ cli = None
    /\ environ = EmptyMap
    /\ files = EmptyMap
    /\ variables = EmptyMap
    /\ before = EmptyMap
    /\ result = None

Apply(name, value) ==
    /\ pc = "pure"
    /\ output = None
    /\ output' = <<name, value>>
    /\ UNCHANGED <<pc, cli, environ, files, variables, before, result, input>>

ApplySplit == Apply("split_unescaped", split_unescaped(input, ","))
ApplyParseToken == Apply("parse_token", ParseToken(input))
ApplyUnescape == Apply("unescape_value", unescape_value(input))
ApplyCoerce == Apply("string_to_tera_value", string_to_tera_value(input))
\* the one definition input, loaded into an empty map
ApplyLoad == Apply("load_cli_variables", load_cli_variables(EmptyMap, <<input>>))

NextPure == ApplySplit \/ ApplyParseToken \/ ApplyUnescape \/ ApplyCoerce \/ ApplyLoad

SpecPure == InitPure /\ [][NextPure]_vars

---------------------------------------------------------------------------
(* The collect_* functions called one after another on one map.  Here cli  *)
(* is the list of the calls made so far, each <<function, argument>>.      *)

InitCalls ==
    /\ pc = "call"
    /\ cli = <<>>
    /\ environ \in Environs
    /\ files \in FileSystems
    /\ variables = EmptyMap
    /\ before = EmptyMap
    /\ result = None
    /\ input = <<>>
    /\ output = None

\* the caller's map and the returned value after a call that returned r
CallReturns(call, r) ==
    /\ cli' = Append(cli, call)
    /\ before' = variables
    /\ variables' = IF IsErr(r) THEN r[3] ELSE r[2]
    /\ result' = IF IsErr(r) THEN <<"Err", r[2]>> ELSE <<r[1]>>
    /\ pc' = IF IsPanic(r) THEN "panicked" ELSE "call"
    /\ UNCHANGED <<environ, files, input, output>>

\* argument lists of collect_cli_variables: none, one or two definitions
\*   foo.bar=42
D_42 == <<"f", "o", "o", ".", "b", "a", "r", "=", "4", "2">>
\*   foo.bar.baz.qux=deep_value
D_deep ==
    <<"f", "o", "o", ".", "b", "a", "r", ".", "b", "a", "z", ".", "q", "u", "x", "=",
      "d", "e", "e", "p", "_", "v", "a", "l", "u", "e">>

\*   a.b=2
D_ab == <<"a", ".", "b", "=", "2">>

\*   Y=2,nov,X=9
D_mid == <<"Y", "=", "2", ",", "n", "o", "v", ",", "X", "=", "9">>

CliCallArgs ==
    {<<>>, <<D_bar, D_baz>>, <<D_gh, D_gk>>, <<D_Xcli, D_two, D_Xdot>>, <<D_Xdot, D_two, D_Xcli>>,
     <<D_42>>, <<D_deep>>, <<D_ab>>, <<D_mid>>, <<D_Xcli, D_partial>>, <<D_partial, D_Xcli>>}
    \cup {<<d>> : d \in Definitions}

CallCollectCli ==
    /\ pc = "call"
    /\ Len(cli) < MaxCalls
    /\ \E cli_vars \in CliCallArgs :
          CallReturns(<<"cli", cli_vars>>, collect_cli_variables(variables, cli_vars))

CallCollectEnv ==
    /\ pc = "call"
    /\ Len(cli) < MaxCalls
    /\ \E e \in CallEnvArgs :
          CallReturns(<<"env", e>>, collect_env_variables(variables, environ, e))

CallCollectConfig ==
    /\ pc = "call"
    /\ Len(cli) < MaxCalls
    /\ \E p \in CallConfigPaths :
          CallReturns(<<"config", p>>, collect_config_variables(variables, files, p))

NextCalls == CallCollectCli \/ CallCollectEnv \/ CallCollectConfig

SpecCalls == InitCalls /\ [][NextCalls]_vars

---------------------------------------------------------------------------
(* main: the command, validate_args, collect_variables, process_inputs.    *)
(* input holds the rest of the command line, [command, inputs, output];    *)
(* output is the list of what the process has done that can be seen from   *)
(* outside: <<"stdout", ..>>, <<"stderr", text>>, <<"process_inputs", ns>>, *)
(* <<"exit", code>>.                                                        *)

ValidationError(message) == <<"ValidationError", message>>
SecurityError(message) == <<"SecurityError", message>>

\* paths of the output option: o (does not exist), ../o, d (a directory)
O_stdout == <<"-">>
O_file == <<"o">>
O_parent == <<".", ".", "/", "o">>
O_dir == <<"d">>
ExistingDirs == {O_dir}

\* Path::exists and Path::is_dir
PathExists(path) == path \in ExistingDirs \/ path \in DOMAIN files
PathIsDir(path) == path \in ExistingDirs

\* validate_path: a ".." component is refused (the paths of the model are
\* short and hold no control characters)
validate_path(path) ==
    IF \E i \in 1..Len(SplitOn(path, "/")) : SplitOn(path, "/")[i] = <<".", ".">>
    THEN <<"Err", SecurityError(<<"Invalid path - contains parent directory references">>)>>
    ELSE <<"Ok">>

using_stdin(inputs) == inputs = <<>> \/ inputs = <<O_stdout>>
single_input(inputs) == using_stdin(inputs) \/ Len(inputs) = 1
using_stdout(out) == IsSome(out) /\ out[2] = O_stdout

\* validate_args from the output combinations on
ValidateOutput(inputs, out) ==
    IF ~single_input(inputs) /\ using_stdout(out)
    THEN <<"Err", ValidationError(<<"Cannot use '-' (stdout) with multiple inputs">>)>>
    ELSE IF ~single_input(inputs) /\ IsSome(out) /\ IsErr(validate_path(out[2]))
    THEN validate_path(out[2])
    ELSE IF ~single_input(inputs) /\ IsSome(out) /\ PathExists(out[2]) /\ ~PathIsDir(out[2])
    THEN <<"Err", ValidationError(<<"Multiple inputs require output to be a directory">>)>>
    ELSE IF ~single_input(inputs) /\ ~IsSome(out)
    THEN <<"Err", ValidationError(<<"Multiple inputs require --output directory">>)>>
    ELSE <<"Ok">>

validate_args(inputs, out) ==
    IF Len(inputs) > 1 /\ \E i \in 1..Len(inputs) : inputs[i] = O_stdout
    THEN <<"Err", ValidationError(<<"Cannot use '-' (stdin) with other input files">>)>>
    ELSE IF using_stdin(inputs) /\ IsSome(out) /\ out[2] # O_stdout
            /\ IsErr(validate_path(out[2]))
    THEN validate_path(out[2])
    ELSE IF using_stdin(inputs) /\ IsSome(out) /\ out[2] # O_stdout
            /\ PathExists(out[2]) /\ PathIsDir(out[2])
    THEN <<"Err", ValidationError(<<"Cannot use directory output with stdin. Use '-' for stdout or specify a filename">>)>>
    ELSE ValidateOutput(inputs, out)

\* command lines of main
MainCommands == {None, Some("Completions")}
MainInputs == {<<>>, <<O_stdout>>, <<<<"t">>>>, <<<<"t">>, O_stdout>>, <<<<"t">>, <<"u">>>>}
MainOutputs == {None, Some(O_stdout), Some(O_file), Some(O_parent), Some(O_dir)}
MainEnvArgs == {None, Some(<<"X", ",", " ", "N">>)}
MainConfigArgs == {None, Some(P_json), Some(P_bad), Some(P_missing)}
MainDefinitions == {D_Xcli, D_partial, D_multi}

\* the outcomes of process_inputs: done, or an error from reading, rendering
\* or writing
ProcessOutcomes == {<<"Ok">>, <<"Err", <<"TemplateError", <<"MiniJinja error">>>>>>}

InitMain ==
    /\ pc = "main"
    /\ cli \in [env : MainEnvArgs, config : MainConfigArgs,
                variables : SeqsUpTo(MainDefinitions, 1)]
    /\ input \in [command : MainCommands, inputs : MainInputs, output : MainOutputs]
    /\ environ \in Environs
    /\ files \in FileSystems
    /\ variables = EmptyMap
    /\ before = EmptyMap
    /\ result = None
    /\ output = <<>>

\* eprintln!("{}", err); std::process::exit(1)
ReportAndExit(err) ==
    /\ output' = output \o <<<<"stderr", err[2]>>, <<"exit", 1>>>>
    /\ pc' = "exited"

\* the Completions subcommand: generate(.., &mut io::stdout()); return
MainCompletions ==
    /\ pc = "main"
    /\ IsSome(input.command)
    /\ output' = output \o <<<<"stdout", "completions">>, <<"exit", 0>>>>
    /\ pc' = "exited"
    /\ UNCHANGED <<cli, environ, files, variables, before, result, input>>

\* main once validate_args has returned r
MainValidated(r) ==
    IF IsErr(r)
    THEN ReportAndExit(r[2])
    ELSE pc' = "env" /\ output' = output

\* if let Err(err) = processing::validate_args(&cli) { .. exit(1) }
MainValidate ==
    /\ pc = "main"
    /\ ~IsSome(input.command)
    /\ MainValidated(validate_args(input.inputs, input.output))
    /\ UNCHANGED <<cli, environ, files, variables, before, result, input>>

\* the Err arm of the match on collect_variables
MainAssemblyFailed ==
    /\ pc = "failed"
    /\ ReportAndExit(result[2])
    /\ UNCHANGED <<cli, environ, files, variables, before, result, input>>

\* a variant in which main goes on after an assembly error
CanProcessInputs_AfterError == pc \in {"done", "failed"}

\* the Ok arm of the match on collect_variables: vars is bound, main goes on
CanProcessInputs == pc = "done"

\* main once process_inputs, called with the namespace, has returned r
MainProcessed(r) ==
    /\ output' = output \o <<<<"process_inputs", variables>>>>
                        \o (IF IsErr(r) THEN <<<<"stderr", r[2][2]>>, <<"exit", 1>>>>
                            ELSE <<<<"exit", 0>>>>)
    /\ pc' = "exited"

\* if let Err(err) = processing::process_inputs(&cli, &variables) { .. exit(1) }
MainProcessInputs ==
    /\ CanProcessInputs
    /\ \E r \in ProcessOutcomes : MainProcessed(r)
    /\ UNCHANGED <<cli, environ, files, variables, before, result, input>>

NextMain ==
    \/ MainCompletions
    \/ MainValidate
    \/ EnvPass
    \/ ConfigPass
    \/ CliPass
    \/ MainAssemblyFailed
    \/ MainProcessInputs

SpecMain == InitMain /\ [][NextMain]_vars

---------------------------------------------------------------------------
(* What the inputs of a run say, read off the inputs alone *)

RECURSIVE TokensOf(_, _)
\* the tokens of the definitions d.. of cli_vars, in processing order
TokensOf(cli_vars, d) ==
    IF d > Len(cli_vars) THEN <<>>
    ELSE split_unescaped(cli_vars[d], ",")[2] \o TokensOf(cli_vars, d + 1)

\* the pairs <<key, raw value>> of the definitions, in processing order
\* (of a command line whose tokens are all accepted)
PairsOf(cli_vars) ==
    LET tokens == TokensOf(cli_vars, 1)
    IN  [k \in 1..Len(tokens) |-> Tail(ParseToken(tokens[k]))]

\* the first segment of a key
RootOf(key) == SplitOn(key, ".")[1]

\* the typed value a raw value stands for
ValueOf(raw) == string_to_tera_value(unescape_value(raw))

\* the names listed in --env
EnvNames ==
    IF IsSome(cli.env)
    THEN LET names == EnvVarNames(cli.env[2]) IN {names[k] : k \in 1..Len(names)}
    ELSE {}
EnvBinds(K) == K \in EnvNames /\ K \in DOMAIN environ

\* the mapping decoded from the config file of a run that got past the config pass
ConfigMapping ==
    IF IsSome(cli.config)
    THEN load_config(create_loader(Extension(cli.config[2]))[2], files[cli.config[2]])[2]
    ELSE EmptyMap
ConfigBinds(K) == K \in DOMAIN ConfigMapping

\* among pairs: some pair writes to K, as the undotted K=v or a dotted K.x=v
Touches(pairs, K) == \E k \in 1..Len(pairs) : RootOf(pairs[k][1]) = K
\* among pairs: an undotted pair K=v
Binds(pairs, K) == \E k \in 1..Len(pairs) : pairs[k][1] = K
\* among pairs: the last undotted pair K=v
LastBinding(pairs, K) ==
    CHOOSE k \in 1..Len(pairs) :
        pairs[k][1] = K /\ \A j \in (k + 1)..Len(pairs) : pairs[j][1] # K
\* among pairs: the last pair that writes to K is a dotted one
LastWriteDotted(pairs, K) ==
    \E k \in 1..Len(pairs) :
        /\ RootOf(pairs[k][1]) = K
        /\ pairs[k][1] # K
        /\ \A j \in (k + 1)..Len(pairs) : pairs[j][1] # K

\* how many of the three sources bind K
NumSources(pairs, K) ==
    (IF EnvBinds(K) THEN 1 ELSE 0) + (IF ConfigBinds(K) THEN 1 ELSE 0)
        + (IF Binds(pairs, K) THEN 1 ELSE 0)

\* the value K has in the highest-precedence source that binds it
HighestValue(pairs, K) ==
    IF Binds(pairs, K) THEN ValueOf(pairs[LastBinding(pairs, K)][2])
    ELSE IF ConfigBinds(K) THEN json_to_tera_value(ConfigMapping[K])
    ELSE ValueOf(environ[K])

Keys == {K_X, K_foo, <<"Y">>, <<"N">>, <<"a">>, <<"a", ".", "b">>}

---------------------------------------------------------------------------
(* Claims *)

\* C1 as stated: when collect_variables returns a namespace, every top-level
\* key K that more than one source binds (an --env name set in the environment,
\* a config key, an undotted CLI pair K=v) has the value of the
\* highest-precedence source binding it: CLI over config over environment.
C1_AsStated ==
    pc = "done" =>
        LET pairs == PairsOf(cli.variables)
        IN  \A K \in Keys \cup DOMAIN variables :
                NumSources(pairs, K) >= 2 =>
                    K \in DOMAIN variables /\ variables[K] = HighestValue(pairs, K)

\* C1: the same, for the keys K to which no dotted CLI pair K.x=v writes after
\* the last binding of K (such a pair writes into the value of K).
C1_Precedence ==
    pc = "done" =>
        LET pairs == PairsOf(cli.variables)
        IN  \A K \in Keys \cup DOMAIN variables :
                (NumSources(pairs, K) >= 2 /\ ~LastWriteDotted(pairs, K)) =>
                    K \in DOMAIN variables /\ variables[K] = HighestValue(pairs, K)

\* a run in which the environment, the config file and the CLI all bind X
C1_Witness ==
    /\ pc = "done"
    /\ EnvBinds(K_X) /\ ConfigBinds(K_X) /\ Binds(PairsOf(cli.variables), K_X)
    /\ ~LastWriteDotted(PairsOf(cli.variables), K_X)
    /\ variables[K_X] = String(<<"c", "l", "i">>)

---------------------------------------------------------------------------
(* Trees: the namespace as a tree of Objects, a path a list of names *)

RECURSIVE Lookup(_, _)
\* the node of the map fields at path q: Some(value), or None when there is none
Lookup(fields, q) ==
    IF Head(q) \notin DOMAIN fields THEN None
    ELSE IF Len(q) = 1 THEN Some(fields[Head(q)])
    ELSE IF IsObject(fields[Head(q)]) THEN Lookup(fields[Head(q)][2], Tail(q))
    ELSE None

RECURSIVE NodePaths(_)
\* the paths of all nodes of the map fields
NodePaths(fields) ==
    UNION { {<<k>>} \cup (IF IsObject(fields[k])
                          THEN {<<k>> \o q : q \in NodePaths(fields[k][2])}
                          ELSE {})
            : k \in DOMAIN fields }

\* p and q part ways: neither is a prefix of the other
Diverge(p, q) == \E i \in 1..Len(p) : i <= Len(q) /\ p[i] # q[i]

\* the path a CLI key names
PathOf(key) == SplitOn(key, ".")

\* the last call made, <<function, argument>>
LastCall == cli[Len(cli)]
\* the last call was collect_cli_variables and returned Ok
CliCallReturnedOk == cli # <<>> /\ LastCall[1] = "cli" /\ result = <<"Ok">>

BothUnderFoo ==
    /\ K_foo \in DOMAIN variables
    /\ IsObject(variables[K_foo])
    /\ {<<"b", "a", "r">>, <<"b", "a", "z">>} \subseteq DOMAIN variables[K_foo][2]
---------------------------------------------------------------------------
(* Two successive collect_cli_variables calls, foo.bar=first then foo.baz=second *)

\* the last two calls were collect_cli_variables with ["foo.bar=first"] and
\* then, on the same map, with ["foo.baz=second"]
BarThenBaz ==
    /\ Len(cli) >= 2
    /\ cli[Len(cli) - 1] = <<"cli", <<D_bar>>>>
    /\ cli[Len(cli)] = <<"cli", <<D_baz>>>>

\* the fields of the object under foo (no fields when foo is not an object)
FooFields ==
    IF K_foo \in DOMAIN variables /\ IsObject(variables[K_foo])
    THEN variables[K_foo][2]
    ELSE EmptyMap

BazIsSecond ==
    /\ <<"b", "a", "z">> \in DOMAIN FooFields
    /\ FooFields[<<"b", "a", "z">>] = String(<<"s", "e", "c", "o", "n", "d">>)

BarIsFirst ==
    /\ <<"b", "a", "r">> \in DOMAIN FooFields
    /\ FooFields[<<"b", "a", "r">>] = String(<<"f", "i", "r", "s", "t">>)

---------------------------------------------------------------------------
(* Pair boundaries, read off the characters of the string *)

RECURSIVE BoundariesFrom(_, _, _, _, _)
\* the positions i.. of s holding a comma that is not escaped and at which both
\* depth counters are zero; escaped, brackets and braces describe position i
BoundariesFrom(s, i, escaped, brackets, braces) ==
    IF i > Len(s) THEN {}
    ELSE IF escaped THEN BoundariesFrom(s, i + 1, FALSE, brackets, braces)
    ELSE IF s[i] = BS THEN BoundariesFrom(s, i + 1, TRUE, brackets, braces)
    ELSE IF s[i] = "[" THEN BoundariesFrom(s, i + 1, FALSE, brackets + 1, braces)
    ELSE IF s[i] = "]" THEN BoundariesFrom(s, i + 1, FALSE, brackets - 1, braces)
    ELSE IF s[i] = "{" THEN BoundariesFrom(s, i + 1, FALSE, brackets, braces + 1)
    ELSE IF s[i] = "}" THEN BoundariesFrom(s, i + 1, FALSE, brackets, braces - 1)
    ELSE IF s[i] = "," /\ brackets = 0 /\ braces = 0
    THEN {i} \cup BoundariesFrom(s, i + 1, FALSE, brackets, braces)
    ELSE BoundariesFrom(s, i + 1, FALSE, brackets, braces)

Boundaries(s) == BoundariesFrom(s, 1, FALSE, 0, 0)

RECURSIVE CutAt(_, _, _)
\* s from position from on, cut at the positions in points
CutAt(s, from, points) ==
    IF \E i \in points : i >= from
    THEN LET i == CHOOSE i \in points : i >= from /\ \A j \in points : j >= from => i <= j
         IN  <<SubSeq(s, from, i - 1)>> \o CutAt(s, i + 1, points)
    ELSE <<SubSeq(s, from, Len(s))>>

\* pieces are the texts between the positions in points; an empty text after
\* the last position may be left out
IsCutAt(pieces, s, points) ==
    LET all == CutAt(s, 1, points)
    IN  \/ pieces = all
        \/ /\ Len(all) > 1
           /\ all[Len(all)] = <<>>
           /\ pieces = SubSeq(all, 1, Len(all) - 1)

\* the pure function name was applied to the input
Applied(name) == output # None /\ output[1] = name

\* C4: split_unescaped(s, ',') cuts s at exactly the commas that are not
\* escaped and at which the [ ] depth counter and the { } depth counter are
\* both zero: it returns the texts between those commas.
C4_SplitPoints ==
    Applied("split_unescaped") =>
        /\ IsOk(output[2])
        /\ IsCutAt(output[2][2], input, Boundaries(input))

---------------------------------------------------------------------------
(* Tokens, read off their characters *)

RECURSIVE Escaped(_, _)
\* the character at position i of s follows an active backslash (one that is
\* not itself escaped)
Escaped(s, i) == i > 1 /\ s[i - 1] = BS /\ ~Escaped(s, i - 1)

\* the positions of the unescaped '=' characters of s
UnescapedEquals(s) == {i \in 1..Len(s) : s[i] = "=" /\ ~Escaped(s, i)}

\* the position of the first unescaped '=' of s
FirstEquals(s) ==
    CHOOSE i \in UnescapedEquals(s) : \A j \in UnescapedEquals(s) : i <= j

NoSeparator(s) == UnescapedEquals(s) = {}
EmptyKey(s) == UnescapedEquals(s) # {} /\ FirstEquals(s) = 1
EmptyValue(s) == UnescapedEquals(s) # {} /\ FirstEquals(s) = Len(s)

\* t occurs in s as a run of consecutive characters
IsInfix(t, s) == \E i \in 0..(Len(s) - Len(t)) : SubSeq(s, i + 1, i + Len(t)) = t

\* the tokens load_cli_variables takes from the one definition input
InputTokens == split_unescaped(input, ",")[2]

\* token k is the first of tokens that the predicate Bad holds of
IsFirst(tokens, k, Bad(_)) == Bad(tokens[k]) /\ \A j \in 1..(k - 1) : ~Bad(tokens[j])

\* r is the failure with a VariableParseError whose message contains tok
FailsNaming(r, tok) ==
    /\ IsErr(r)
    /\ r[2][1] = "VariableParseError"
    /\ IsInfix(tok, r[2][2])

\* the token is refused for lack of a separator or of a key
Malformed(tok) == NoSeparator(tok) \/ EmptyKey(tok)

\* load_cli_variables was applied to an input that split_unescaped cuts
LoadedTokens == Applied("load_cli_variables") /\ IsOk(split_unescaped(input, ","))

\* C5: when load_cli_variables comes to a token that has no unescaped '=' or
\* has its first unescaped '=' at offset 0 (an empty key), it returns a
\* VariableParseError whose message contains that token.
C5_MalformedTokenFails ==
    LoadedTokens =>
        \A k \in 1..Len(InputTokens) :
            IsFirst(InputTokens, k, Malformed) => FailsNaming(output[2], InputTokens[k])

\* novaluehere has no '=' and is refused by name; so is a token with an empty
\* key that follows an accepted one
C5_Witness ==
    /\ LoadedTokens
    /\ \/ input = E_novaluehere /\ FailsNaming(output[2], E_novaluehere)
       \/ /\ Len(InputTokens) = 2
          /\ EmptyKey(InputTokens[2])
          /\ ~Malformed(InputTokens[1])
          /\ FailsNaming(output[2], InputTokens[2])

\* the token is one the key/value parser is to refuse
Refusable(tok) == Malformed(tok) \/ EmptyValue(tok)

\* C6: when load_cli_variables comes to a token whose value portion is empty
\* (its first unescaped '=' is its final character, as in a=), it returns a
\* VariableParseError and inserts nothing for that token: the map is as the
\* tokens before it left it.
C6_EmptyValueFails ==
    LoadedTokens =>
        \A k \in 1..Len(InputTokens) :
            (IsFirst(InputTokens, k, Refusable) /\ EmptyValue(InputTokens[k])) =>
                /\ IsErr(output[2])
                /\ output[2][2][1] = "VariableParseError"
                /\ output[2][3] = LoadTokens(EmptyMap, SubSeq(InputTokens, 1, k - 1), 1)[2]

---------------------------------------------------------------------------
(* The key/value parser on one token *)

\* C7: for every token the key/value parser accepts, the key is the text
\* before the first unescaped '=' and the raw value is everything after it,
\* later '=' characters included; a key with multi-byte characters is cut at
\* the right place (the cut never falls inside a character).
C7_KeyAndRawValue ==
    Applied("parse_token") =>
        /\ ~IsPanic(output[2])
        /\ IsOk(output[2]) =>
              /\ UnescapedEquals(input) # {}
              /\ output[2][2] = SubSeq(input, 1, FirstEquals(input) - 1)
              /\ output[2][3] = SubSeq(input, FirstEquals(input) + 1, Len(input))

\* a key of a two-byte and a three-byte character; a token with an escaped '='
\* in the key and a second '=' in the value
C7_Witness ==
    /\ Applied("parse_token")
    /\ \/ input = E_multi_key
          /\ output[2] = <<"Ok", <<"U00E9", "U20AC">>, <<"1">>>>
       \/ input = E_later_equals
          /\ output[2] = <<"Ok", <<"a", BS, "=", "b">>, <<"c", "=", "d">>>>

---------------------------------------------------------------------------
(* unescape_value *)

\* the backslash at position i of s is active and the character after it is
\* one of \ , = [ ] { }: it is dropped, the character after it stands alone
DropsBackslash(s, i) ==
    /\ s[i] = BS
    /\ ~Escaped(s, i)
    /\ i < Len(s)
    /\ s[i + 1] \in {BS, ",", "=", "[", "]", "{", "}"}

RECURSIVE KeptFrom(_, _)
\* the characters i.. of s without the dropped backslashes
KeptFrom(s, i) ==
    IF i > Len(s) THEN <<>>
    ELSE (IF DropsBackslash(s, i) THEN <<>> ELSE <<s[i]>>) \o KeptFrom(s, i + 1)

\* C8: unescape_value returns, for every input, the input without the active
\* backslashes that are followed by one of \ , = [ ] { }: such a pair becomes
\* its second character, a backslash before any other character stays with
\* that character, a lone trailing backslash stays, all else is copied.
C8_Unescape ==
    Applied("unescape_value") => output[2] = KeptFrom(input, 1)

\* \[start\]middle\[end\] becomes [start]middle[end]; \n, and a trailing
\* backslash after an escaped one, stay
C8_Witness ==
    /\ Applied("unescape_value")
    /\ \/ input = E_brackets_value
          /\ output[2] = <<"[", "s", "t", "a", "r", "t", "]", "m", "i", "d", "d", "l",
                           "e", "[", "e", "n", "d", "]">>
       \/ input = <<BS, "n", BS>> /\ output[2] = <<BS, "n", BS>>
       \/ input = <<BS, BS, BS>> /\ output[2] = <<BS, BS>>

---------------------------------------------------------------------------
(* string_to_tera_value *)

ValueTags == {"Null", "Bool", "Number", "String", "Array", "Object"}

\* the value the examples of the coercion become
ExampleValue(s) ==
    IF s = E_42 THEN IntNumber(42)
    ELSE IF s = E_3_14 THEN <<"Number", <<"Float", FALSE, 314, -2>>>>
    ELSE IF s = E_true THEN Bool(TRUE)
    ELSE IF s = E_array THEN Array(<<IntNumber(1), IntNumber(2)>>)
    ELSE String(s)

CoercionExamples == {E_42, E_3_14, E_true, E_hello, E_array, E_inf, E_NaN, E_1e999}

\* C9: string_to_tera_value returns a value for every input, the result of the
\* first step that succeeds in the order JSON value, 64-bit integer, finite
\* 64-bit float, boolean, else the input as a String; 42 is an integer, 3.14 a
\* float, true a Bool, hello a String, [1,2] an Array of two integers, and a
\* text whose float parse is not finite (inf, NaN, 1e999) is a String.
C9_FirstSuccess ==
    Applied("string_to_tera_value") =>
        LET json == serde_json_from_str(input)
            int_val == parse_i64(input)
            float_val == parse_f64(input)
            bool_val == parse_bool(input)
            finite == IsOk(float_val) /\ float_val[2] # <<"Inf">>
        IN  /\ output[2][1] \in ValueTags
            /\ input \in CoercionExamples => output[2] = ExampleValue(input)
            /\ IsOk(json) => output[2] = json_to_tera_value(json[2])
            /\ (~IsOk(json) /\ IsOk(int_val)) => output[2] = IntNumber(int_val[2])
            /\ (~IsOk(json) /\ ~IsOk(int_val) /\ finite)
                  => output[2] = <<"Number", float_val[2]>>
            /\ (~IsOk(json) /\ ~IsOk(int_val) /\ ~finite /\ IsOk(bool_val))
                  => output[2] = Bool(bool_val[2])
            /\ (~IsOk(json) /\ ~IsOk(int_val) /\ ~finite /\ ~IsOk(bool_val))
                  => output[2] = String(input)

\* +42 is no JSON value but parses as an integer and as a float: the integer
\* step comes first
C9_Witness ==
    /\ Applied("string_to_tera_value")
    /\ input = E_plus42
    /\ ~IsOk(serde_json_from_str(input))
    /\ IsOk(parse_f64(input))
    /\ output[2] = IntNumber(42)

---------------------------------------------------------------------------
(* The environment pass *)

\* the last call was collect_env_variables with a list of names
EnvCallReturned == cli # <<>> /\ LastCall[1] = "env" /\ IsSome(LastCall[2])

\* the names the last call listed
ListedNames ==
    LET names == EnvVarNames(LastCall[2][2]) IN {names[k] : k \in 1..Len(names)}

\* the entry of the map fields under the name K, if any
Entry(fields, K) == IF K \in DOMAIN fields THEN Some(fields[K]) ELSE None

\* C10: the environment pass returns no error, and a listed name that is not
\* set in the process environment is skipped: no entry is added for it, and
\* every entry other than those of the listed names that are set is as it was.
C10_UnboundSkipped ==
    EnvCallReturned =>
        /\ result = <<"Ok">>
        /\ \A K \in (ListedNames \cup DOMAIN before \cup DOMAIN variables) :
              ~(K \in ListedNames /\ K \in DOMAIN environ)
                  => Entry(variables, K) = Entry(before, K)

\* X and N are listed and only X is set, the map holding entries already
C10_Witness ==
    /\ EnvCallReturned
    /\ ListedNames = {K_X, <<"N">>}
    /\ <<"N">> \notin DOMAIN environ
    /\ <<"N">> \notin DOMAIN variables
    /\ K_X \in DOMAIN variables
    /\ DOMAIN before \ {K_X} # {}
    /\ result = <<"Ok">>

---------------------------------------------------------------------------
(* The config pass *)

\* the last call was collect_config_variables
ConfigCallReturned == cli # <<>> /\ LastCall[1] = "config"

\* the path the last call was given
ConfigPath == LastCall[2]

AcceptedExtensions ==
    {<<"j", "s", "o", "n">>, <<"y", "a", "m", "l">>, <<"y", "m", "l">>, <<"t", "o", "m", "l">>}

\* the message names each accepted format, with its dot
NamesAcceptedFormats(message) ==
    \A ext \in AcceptedExtensions : IsInfix(<<".">> \o ext, message)

\* the last call returned an error of the kind
FailedWith(kind) == result[1] = "Err" /\ result[2][1] = kind

\* C11: for a config file that can be read and whose path has an extension
\* other than json, yaml, yml, toml (or none), the config pass fails with a
\* ConfigParseError naming the accepted formats, whatever the file holds (no
\* decoder's verdict is reported), and leaves the map as it was.
C11_UnsupportedExtension ==
    (ConfigCallReturned /\ ConfigPath \in DOMAIN files
        /\ Extension(ConfigPath) \notin AcceptedExtensions) =>
            /\ FailedWith("ConfigParseError")
            /\ NamesAcceptedFormats(result[2][2])
            /\ \A format \in DOMAIN files[ConfigPath] :
                  IsErr(files[ConfigPath][format]) =>
                      result[2][2] # files[ConfigPath][format][2]
            /\ variables = before

\* c.txt, well formed, given to a map that holds entries; b.txt, malformed;
\* c, without an extension
C11_Witness ==
    /\ ConfigCallReturned
    /\ FailedWith("ConfigParseError")
    /\ NamesAcceptedFormats(result[2][2])
    /\ variables = before
    /\ \/ ConfigPath = P_txt /\ before # EmptyMap
       \/ ConfigPath = P_badtxt
       \/ ConfigPath = P_noext

---------------------------------------------------------------------------
(* Failures of a collect_variables run, read off its inputs *)

\* the format a path's extension selects
FormatOf(ext) ==
    IF ext = <<"j", "s", "o", "n">> THEN "json"
    ELSE IF ext = <<"t", "o", "m", "l">> THEN "toml"
    ELSE "yaml"

\* the config file at path cannot be read, has an extension that is not
\* accepted, or does not decode in the format of its extension
ConfigFileFails(path) ==
    \/ path \notin DOMAIN files
    \/ Extension(path) \notin AcceptedExtensions
    \/ IsErr(files[path][FormatOf(Extension(path))])

\* the run is given a config file that fails
ConfigFails == IsSome(cli.config) /\ ConfigFileFails(cli.config[2])

\* definition d is cut into tokens (split_unescaped does not abort on it)
IsSplit(d) == IsOk(split_unescaped(cli.variables[d], ","))

\* definition d is cut into tokens one of which is malformed
HasMalformed(d) ==
    /\ IsSplit(d)
    /\ \E k \in 1..Len(split_unescaped(cli.variables[d], ",")[2]) :
          Malformed(split_unescaped(cli.variables[d], ",")[2][k])

\* the first malformed token of definition d
FirstMalformed(d) ==
    LET tokens == split_unescaped(cli.variables[d], ",")[2]
    IN  tokens[CHOOSE k \in 1..Len(tokens) : IsFirst(tokens, k, Malformed)]

\* definition d is the first that is not loaded whole
IsFirstBad(d) ==
    /\ ~IsSplit(d) \/ HasMalformed(d)
    /\ \A c \in 1..(d - 1) : IsSplit(c) /\ ~HasMalformed(c)

RECURSIVE ApplyPairs(_, _, _)
\* the map vs after the pairs k.. of pairs, each inserted in turn
ApplyPairs(vs, pairs, k) ==
    IF k > Len(pairs) THEN vs
    ELSE ApplyPairs(InsertValue(vs, pairs[k][1], ValueOf(pairs[k][2])), pairs, k + 1)

\* collect_variables has returned or aborted
Ended == pc \in {"done", "failed", "panicked"}

---------------------------------------------------------------------------
(* A config file that cannot be read *)

\* the run is given a config file that cannot be read
ConfigUnreadable == IsSome(cli.config) /\ cli.config[2] \notin DOMAIN files

\* C13 as stated: when the config file cannot be read, assembly fails with an
\* error of kind ConfigParseError.
C13_AsStated ==
    (Ended /\ ConfigUnreadable) => pc = "failed" /\ result[2][1] = "ConfigParseError"

\* C13: when the config file cannot be read, assembly fails with an error of
\* kind FileSystemError, whose text is that of the I/O error.
C13_UnreadableIsFileSystemError ==
    (Ended /\ ConfigUnreadable) =>
        /\ pc = "failed"
        /\ result = <<"Err", <<"FileSystemError",
                               read_to_string(files, cli.config[2])[2][2]>>>>

\* m.json does not exist
C13_Witness ==
    /\ pc = "failed"
    /\ cli.config = Some(P_missing)
    /\ ConfigUnreadable
    /\ result[2][1] = "FileSystemError"

---------------------------------------------------------------------------
(* What an assembly error says *)

\* the config file is read and has an accepted extension, but does not decode
ConfigUndecodable ==
    /\ IsSome(cli.config)
    /\ cli.config[2] \in DOMAIN files
    /\ Extension(cli.config[2]) \in AcceptedExtensions
    /\ IsErr(files[cli.config[2]][FormatOf(Extension(cli.config[2]))])

\* C14: every error collect_variables returns identifies its cause: a
\* VariableParseError carries the text of the offending token, and an error
\* caused by the config file (it cannot be read, or does not decode) carries
\* the path of the config file.
C14_ErrorsNameCause ==
    pc = "failed" =>
        /\ result[2][1] = "VariableParseError" =>
              \E d \in 1..Len(cli.variables) :
                  /\ IsFirstBad(d) /\ IsSplit(d)
                  /\ IsInfix(FirstMalformed(d), result[2][2])
        /\ (ConfigUnreadable \/ ConfigUndecodable) =>
              IsInfix(cli.config[2], result[2][2])

---------------------------------------------------------------------------
(* The order of the CLI pass *)

\* the top-level names the pairs write to
RootsOf(pairs) == {RootOf(pairs[k][1]) : k \in 1..Len(pairs)}

\* the positions of the undotted pairs K=v
Occurrences(pairs, K) == {k \in 1..Len(pairs) : pairs[k][1] = K}

\* a dotted pair K.x=v stands before the last undotted pair K=v
DottedBeforeLast(pairs, K) ==
    \E k \in 1..(LastBinding(pairs, K) - 1) :
        RootOf(pairs[k][1]) = K /\ pairs[k][1] # K

\* C15 as stated: after the CLI pass, an undotted key that occurs in several
\* pairs has the value of its last occurrence, and an undotted pair K=v that
\* stands after dotted pairs K.x=... leaves K bound to v alone.
C15_AsStated ==
    CliCallReturnedOk =>
        LET pairs == PairsOf(LastCall[2])
        IN  \A K \in RootsOf(pairs) :
                (Cardinality(Occurrences(pairs, K)) >= 2
                    \/ (Binds(pairs, K) /\ DottedBeforeLast(pairs, K)))
                => variables[K] = ValueOf(pairs[LastBinding(pairs, K)][2])

\* C15: the CLI pass inserts the pairs in the order given, definitions in
\* order and the pairs of a definition left to right, and the last write
\* wins: an undotted key K after whose last pair K=v no dotted pair K.x=...
\* follows has the value v alone, whatever undotted or dotted pairs of K
\* stand before it.
C15_LastWriteWins ==
    CliCallReturnedOk =>
        LET pairs == PairsOf(LastCall[2])
        IN  /\ variables = ApplyPairs(before, pairs, 1)
            /\ \A K \in RootsOf(pairs) :
                  (Binds(pairs, K) /\ ~LastWriteDotted(pairs, K))
                  => variables[K] = ValueOf(pairs[LastBinding(pairs, K)][2])

\* X.a=1, then X=1,Y=2, then X=cli: X is "cli"
C15_Witness ==
    /\ CliCallReturnedOk
    /\ LastCall[2] = <<D_Xdot, D_two, D_Xcli>>
    /\ variables[K_X] = String(<<"c", "l", "i">>)

---------------------------------------------------------------------------
(* Definitions with plain commas only *)

\* s has no backslash, bracket or brace: each of its commas is unescaped and
\* outside any nesting
PlainCommasOnly(s) == \A i \in 1..Len(s) : s[i] \notin {BS, "[", "]", "{", "}"}

\* C16: for every definition that contains only unescaped commas and no
\* brackets or braces, over any characters, multi-byte ones included,
\* split_unescaped(s, ',') returns exactly the pieces obtained by cutting s at
\* every comma, in order.
C16_CommaSeparatedPieces ==
    (Applied("split_unescaped") /\ PlainCommasOnly(input)) =>
        output[2] = <<"Ok", SplitOn(input, ",")>>

---------------------------------------------------------------------------
(* A dotted key under an absent root *)

RECURSIVE Chain(_, _)
\* names <<p1, ..., pn>> and v: the single-field objects {p1: {... {pn: v}}}
Chain(names, v) ==
    IF names = <<>> THEN v
    ELSE Object(Head(names) :> Chain(Tail(names), v))

\* pair k is the only pair that writes under its root
OnlyWriter(pairs, k) ==
    \A j \in 1..Len(pairs) : j # k => RootOf(pairs[j][1]) # RootOf(pairs[k][1])

\* C17: a CLI pair with the dotted key p0.p1...pn (n >= 1) and value v,
\* applied to a map in which p0 is absent, binds p0 to the chain of
\* single-field objects {p1: {... {pn: v}}}, v unescaped and coerced:
\* foo.bar=42 gives {foo: {bar: 42}}, foo.bar.baz.qux=deep_value four levels.
C17_ChainUnderAbsentRoot ==
    CliCallReturnedOk =>
        LET pairs == PairsOf(LastCall[2])
        IN  \A k \in 1..Len(pairs) :
                (/\ Len(PathOf(pairs[k][1])) >= 2
                 /\ RootOf(pairs[k][1]) \notin DOMAIN before
                 /\ OnlyWriter(pairs, k))
                => /\ RootOf(pairs[k][1]) \in DOMAIN variables
                   /\ variables[RootOf(pairs[k][1])]
                          = Chain(Tail(PathOf(pairs[k][1])), ValueOf(pairs[k][2]))

C17_Witness ==
    /\ CliCallReturnedOk
    /\ before # EmptyMap
    /\ K_foo \notin DOMAIN before
    /\ \/ /\ LastCall[2] = <<D_deep>>
          /\ variables[K_foo] =
                Object(<<"b", "a", "r">> :> Object(<<"b", "a", "z">> :> Object(<<"q", "u", "x">> :>
                    String(<<"d", "e", "e", "p", "_", "v", "a", "l", "u", "e">>))))
       \/ /\ LastCall[2] = <<D_42>>
          /\ variables[K_foo] = Object(<<"b", "a", "r">> :> IntNumber(42))

---------------------------------------------------------------------------
(* The keys of a config file *)

\* the last call was collect_config_variables and returned Ok
ConfigCallReturnedOk == ConfigCallReturned /\ result = <<"Ok">>

\* the mapping decoded from the file the last call was given
DecodedMapping == files[ConfigPath][FormatOf(Extension(ConfigPath))][2]

K_a == <<"a">>
K_a_dot_b == <<"a", ".", "b">>

\* C18: the config pass inserts every top-level key of the decoded file flatly
\* under its exact name, with the converted value, and touches no other
\* entry: the config key "a.b" becomes the one top-level entry "a.b", and an
\* entry "a" is neither created nor modified.
C18_ConfigKeysFlat ==
    ConfigCallReturnedOk =>
        /\ DOMAIN variables = DOMAIN before \cup DOMAIN DecodedMapping
        /\ \A K \in DOMAIN DecodedMapping :
              variables[K] = json_to_tera_value(DecodedMapping[K])
        /\ \A K \in DOMAIN before \ DOMAIN DecodedMapping : variables[K] = before[K]

\* the file has the key "a.b"; the map held a = {b: 2}, and still does
C18_Witness ==
    /\ ConfigCallReturnedOk
    /\ K_a_dot_b \in DOMAIN DecodedMapping
    /\ K_a \in DOMAIN before
    /\ before[K_a] = Object(<<"b">> :> IntNumber(2))
    /\ variables[K_a] = Object(<<"b">> :> IntNumber(2))
    /\ variables[K_a_dot_b] = IntNumber(1)

---------------------------------------------------------------------------
(* The names the environment pass binds *)

\* the listed names that are set in the process environment
BoundNames == ListedNames \cap DOMAIN environ

\* C19: for every name listed in --env that is set in the process environment
\* the environment pass inserts one entry under exactly that name, dots
\* included, holding the coercion of the unescaped value; it inserts no other
\* entry. env\{curly\}brackets is stored as the string env{curly}brackets and
\* 42 as an integer.
C19_EnvEntries ==
    EnvCallReturned =>
        /\ DOMAIN variables = DOMAIN before \cup BoundNames
        /\ \A N \in BoundNames :
              variables[N] = string_to_tera_value(unescape_value(environ[N]))

\* a.b and C are listed, a.b set to 7 or C to env\{curly\}brackets; or N is
\* listed and set to 42
C19_Witness ==
    /\ EnvCallReturned
    /\ K_a \notin DOMAIN variables
    /\ \/ /\ ListedNames = {K_a_dot_b, <<"C">>}
          /\ K_a_dot_b \in DOMAIN variables
          /\ variables[K_a_dot_b] = IntNumber(7)
       \/ /\ ListedNames = {K_a_dot_b, <<"C">>}
          /\ <<"C">> \in DOMAIN variables
          /\ variables[<<"C">>] =
                String(<<"e", "n", "v", "{", "c", "u", "r", "l", "y", "}", "b", "r", "a",
                         "c", "k", "e", "t", "s">>)
       \/ /\ ListedNames = {<<"N">>}
          /\ <<"N">> \in DOMAIN variables
          /\ variables[<<"N">>] = IntNumber(42)

---------------------------------------------------------------------------
(* main: output and assembly *)

\* what the process has done so far includes an event of the kind
Did(kind) == \E i \in 1..Len(output) : output[i][1] = kind

\* collect_variables returned an error
AssemblyFailed == result[1] = "Err"

\* C20: in every run of main, input processing starts only after
\* collect_variables has returned a namespace, and is given that namespace;
\* when assembly fails nothing has been rendered or written, and the run ends
\* with the error's text on stderr and exit code 1, and nothing else.
C20_NoOutputOnAssemblyError ==
    /\ Did("process_inputs") =>
          /\ result[1] = "Ok"
          /\ \A i \in 1..Len(output) :
                output[i][1] = "process_inputs" => output[i][2] = result[2]
    /\ (AssemblyFailed /\ pc = "failed") => output = <<>>
    /\ (AssemblyFailed /\ pc = "exited") =>
          output = <<<<"stderr", result[2][2]>>, <<"exit", 1>>>>
    /\ pc \in {"env", "config", "cli", "done", "panicked"} => output = <<>>

\* a run that ended on a malformed token: the error is on stderr, nothing else
C20_Witness ==
    /\ pc = "exited"
    /\ AssemblyFailed
    /\ result[2][1] = "VariableParseError"
    /\ output = <<<<"stderr", result[2][2]>>, <<"exit", 1>>>>
    /\ ~Did("process_inputs")

---------------------------------------------------------------------------
(* What a CLI call leaves alone *)

\* C21: a collect_cli_variables call that returns Ok changes only the
\* top-level entries named by the key, or by the first segment of the dotted
\* key, of one of its pairs: every other entry of the map is still there with
\* its value, and no entry of another name is added, so successive calls
\* accumulate.
C21_OtherEntriesKept ==
    CliCallReturnedOk =>
        LET roots == RootsOf(PairsOf(LastCall[2]))
        IN  /\ DOMAIN variables = DOMAIN before \cup roots
            /\ \A K \in DOMAIN before \ roots : variables[K] = before[K]

\* X=1,Y=2 given to a map that holds foo, or X=cli to one that holds a.b
C21_Witness ==
    /\ CliCallReturnedOk
    /\ LastCall[2] \in {<<D_two>>, <<D_Xcli>>}
    /\ DOMAIN before \ {K_X, <<"Y">>} # {}
    /\ \A K \in DOMAIN before \ {K_X, <<"Y">>} : variables[K] = before[K]
    /\ K_X \in DOMAIN variables

---------------------------------------------------------------------------
(* The depth counters of split_unescaped *)

\* The lowest value either depth counter takes while split_unescaped runs
\* over s: the loop of the function with its result left out.
RECURSIVE LowestDepth(_, _, _, _, _, _)
LowestDepth(s, pos, in_escape, in_brackets, in_braces, low) ==
    IF ~(pos < Len(s))
    THEN low
    ELSE
        LET ch == s[pos + 1]
            next == pos + len_utf8(ch)
        IN  IF in_escape
            THEN LowestDepth(s, next, FALSE, in_brackets, in_braces, low)
            ELSE IF ch = BS
            THEN LowestDepth(s, next, TRUE, in_brackets, in_braces, low)
            ELSE IF ch = "["
            THEN LowestDepth(s, next, FALSE, in_brackets + 1, in_braces, low)
            ELSE IF ch = "]"
            THEN LowestDepth(s, next, FALSE, saturating_sub1(in_brackets), in_braces,
                             IF saturating_sub1(in_brackets) < low
                             THEN saturating_sub1(in_brackets) ELSE low)
            ELSE IF ch = "{"
            THEN LowestDepth(s, next, FALSE, in_brackets, in_braces + 1, low)
            ELSE IF ch = "}"
            THEN LowestDepth(s, next, FALSE, in_brackets, saturating_sub1(in_braces),
                             IF saturating_sub1(in_braces) < low
                             THEN saturating_sub1(in_braces) ELSE low)
            ELSE LowestDepth(s, next, FALSE, in_brackets, in_braces, low)

\* C22: while split_unescaped runs, neither the [ ] counter nor the { }
\* counter is ever negative: a closer with no opener leaves its counter at
\* zero, so a=],b=2 is split into the two tokens a=] and b=2.
C22_CountersNeverNegative ==
    Applied("split_unescaped") =>
        /\ LowestDepth(input, 0, FALSE, 0, 0, 0) >= 0
        /\ input = E_excess_closer =>
               output[2] = <<"Ok", <<<<"a", "=", "]">>, <<"b", "=", "2">>>>>>

---------------------------------------------------------------------------
(* The remainder after the last split point *)

\* the pieces the loop of split_unescaped pushed, one for each split point it
\* found, and the byte offset that follows the last of them
LoopOf(s) == SplitLoop(s, ",", 0, FALSE, 0, 0, 0, <<>>)

AllSingleByte(s) == \A i \in 1..Len(s) : len_utf8(s[i]) = 1

\* the pieces between the commas of s, without an empty piece after a final comma
PiecesBeforeEnd(s) ==
    LET all == SplitOn(s, ",")
    IN  IF Len(all) > 1 /\ all[Len(all)] = <<>>
        THEN SubSeq(all, 1, Len(all) - 1)
        ELSE all

---------------------------------------------------------------------------
(* Totality of split_unescaped *)

\* C24: split_unescaped returns a sequence of segments for every input string,
\* strings with multi-byte characters, unbalanced brackets and trailing
\* backslashes included: it never aborts, every slice it takes lying on
\* character boundaries.
C24_SplitNeverFails ==
    Applied("split_unescaped") =>
        /\ ~IsPanic(output[2])
        /\ IsOk(output[2])
        /\ Len(output[2][2]) >= 1

---------------------------------------------------------------------------
(* A dotted key that meets a value that is not an object *)

\* the fields of the map itself (q empty) or of the object at path q
FieldsAt(fields, q) == IF q = <<>> THEN fields ELSE Lookup(fields, q)[2][2]

\* the first j segments of path p lead, in fields, to a value that is not an
\* object, and p goes on below it
NonObjectAt(fields, p, j) ==
    /\ j < Len(p)
    /\ IsSome(Lookup(fields, SubSeq(p, 1, j)))
    /\ ~IsObject(Lookup(fields, SubSeq(p, 1, j))[2])

\* C25: a CLI pair with the dotted key p0.p1...pn and value v replaces a value
\* that is not an object and lies on its path. If p0 is bound to such a value,
\* the entry p0 becomes the chain {p1: {... {pn: v}}}; if the value sits at a
\* segment pj further down, inside objects, it becomes the chain of the
\* segments after pj, and the objects above it keep their other fields.
C25_NonObjectReplaced ==
    CliCallReturnedOk =>
        LET pairs == PairsOf(LastCall[2])
        IN  \A k \in 1..Len(pairs) :
                LET p == PathOf(pairs[k][1])
                IN  \A j \in 1..(Len(p) - 1) :
                        (OnlyWriter(pairs, k) /\ NonObjectAt(before, p, j))
                        => /\ Lookup(variables, SubSeq(p, 1, j))
                                  = Some(Chain(SubSeq(p, j + 1, Len(p)), ValueOf(pairs[k][2])))
                           /\ \A i \in 1..(j - 1) :
                                  LET old == FieldsAt(before, SubSeq(p, 1, i))
                                      new == FieldsAt(variables, SubSeq(p, 1, i))
                                  IN  /\ DOMAIN new = DOMAIN old
                                      /\ \A f \in DOMAIN old \ {p[i + 1]} : new[f] = old[f]

\* X.a=1 where X held a string, or foo.bar.baz.qux=deep_value where the
\* config file gave foo = {bar: 0, z: 9}
C25_Witness ==
    /\ CliCallReturnedOk
    /\ \/ /\ LastCall[2] = <<D_Xdot>>
          /\ K_X \in DOMAIN before
          /\ ~IsObject(before[K_X])
          /\ variables[K_X] = Object(<<"a">> :> IntNumber(1))
       \/ /\ LastCall[2] = <<D_deep>>
          /\ NonObjectAt(before, <<K_foo, <<"b", "a", "r">>, <<"b", "a", "z">>>>, 2)
          /\ DOMAIN before[K_foo][2] = {<<"b", "a", "r">>, <<"z">>}
          /\ variables[K_foo] =
                 Object(<<"b", "a", "r">> :> Object(<<"b", "a", "z">> :> Object(<<"q", "u", "x">> :>
                            String(<<"d", "e", "e", "p", "_", "v", "a", "l", "u", "e">>)))
                        @@ <<"z">> :> before[K_foo][2][<<"z">>])

---------------------------------------------------------------------------
(* The map after a CLI call that failed *)

\* the last call was collect_cli_variables and returned an error
CliCallReturnedErr == cli # <<>> /\ LastCall[1] = "cli" /\ result[1] = "Err"

\* the pairs of the tokens before token k
PairsBefore(tokens, k) == [i \in 1..(k - 1) |-> Tail(ParseToken(tokens[i]))]

\* C26: when collect_cli_variables returns an error for a token, the caller's
\* map holds the effect of exactly the pairs before that token, over all the
\* definitions of the call in order, and of no pair after it: nothing is
\* rolled back.
C26_EarlierPairsStay ==
    CliCallReturnedErr =>
        LET tokens == TokensOf(LastCall[2], 1)
        IN  \A k \in 1..Len(tokens) :
                IsFirst(tokens, k, Malformed) =>
                    /\ result = <<"Err", VariableParseError(InvalidFormatMessage(tokens[k]))>>
                    /\ variables = ApplyPairs(before, PairsBefore(tokens, k), 1)
                    /\ \A K \in DOMAIN variables \cup DOMAIN before :
                           K \notin RootsOf(PairsBefore(tokens, k))
                           => Entry(variables, K) = Entry(before, K)

\* Y=2,nov,X=9 or -D Y=2,=v -D X=cli on a map that binds X: Y is 2 and X is
\* what it was
C26_Witness ==
    /\ CliCallReturnedErr
    /\ LastCall[2] \in {<<D_mid>>, <<D_partial, D_Xcli>>}
    /\ K_X \in DOMAIN before
    /\ <<"Y">> \notin DOMAIN before
    /\ variables = MapInsert(before, <<"Y">>, IntNumber(2))

---------------------------------------------------------------------------
(* A dotted CLI key over an object from the environment or the config file *)

---------------------------------------------------------------------------
(* The key under which a CLI pair is stored *)

\* the text of a token before its first unescaped '=', as written
WrittenKey(tok) == SubSeq(tok, 1, FirstEquals(tok) - 1)

\* the text of a token after its first unescaped '='
WrittenValue(tok) == SubSeq(tok, FirstEquals(tok) + 1, Len(tok))

\* C28: a CLI pair is stored under its key exactly as written: escape
\* sequences in the key are not resolved, only those of the value are. The
\* names of the map are the keys (for a dotted key, its first segment) with
\* their backslashes, and a\=b=c is stored under the key a\=b with the value c.
C28_KeyStoredAsWritten ==
    (LoadedTokens /\ IsOk(output[2])) =>
        /\ DOMAIN output[2][2] = {RootOf(WrittenKey(InputTokens[k])) : k \in 1..Len(InputTokens)}
        /\ \A k \in 1..Len(InputTokens) :
               (/\ ~Contains(WrittenKey(InputTokens[k]), ".")
                /\ \A j \in 1..Len(InputTokens) :
                       j # k => RootOf(WrittenKey(InputTokens[j])) # WrittenKey(InputTokens[k]))
               => output[2][2][WrittenKey(InputTokens[k])] = ValueOf(WrittenValue(InputTokens[k]))
        /\ input = E_escaped_key =>
               output[2][2] = (<<"a", BS, "=", "b">> :> String(<<"c">>))

\* a\=b=c, or a short token whose key holds a backslash, such as \==
C28_Witness ==
    /\ LoadedTokens
    /\ IsOk(output[2])
    /\ Len(InputTokens) = 1
    /\ Contains(WrittenKey(input), BS)
    /\ unescape_value(WrittenKey(input)) # WrittenKey(input)
    /\ DOMAIN output[2][2] = {WrittenKey(input)}

---------------------------------------------------------------------------
(* Dotted keys with an empty segment *)

\* the key of the token is not empty and one of its dot-separated segments is
HasEmptySegment(tok) ==
    /\ UnescapedEquals(tok) # {}
    /\ WrittenKey(tok) # <<>>
    /\ \E i \in 1..Len(PathOf(WrittenKey(tok))) : PathOf(WrittenKey(tok))[i] = <<>>

\* C29: a dotted key with an empty segment is accepted: only a token whose
\* whole key is empty is refused for its key. The empty segment becomes an
\* entry or a field whose name is the empty string: .a=1 gives {"": {a: 1}},
\* a.=1 gives {a: {"": 1}} and a..b=1 gives {a: {"": {b: 1}}}.
C29_EmptySegmentAccepted ==
    LoadedTokens =>
        /\ (\A k \in 1..Len(InputTokens) : ~Malformed(InputTokens[k])) => IsOk(output[2])
        /\ IsErr(output[2]) =>
               \E k \in 1..Len(InputTokens) :
                   /\ ~HasEmptySegment(InputTokens[k])
                   /\ NoSeparator(InputTokens[k]) \/ EmptyKey(InputTokens[k])
                   /\ output[2][2] = VariableParseError(InvalidFormatMessage(InputTokens[k]))
        /\ (Len(InputTokens) = 1 /\ HasEmptySegment(InputTokens[1])) =>
               LET p == PathOf(WrittenKey(InputTokens[1]))
               IN  output[2] = <<"Ok", p[1] :> Chain(Tail(p), ValueOf(WrittenValue(InputTokens[1])))>>
        /\ input = E_empty_first =>
               output[2][2] = (<<>> :> Object(<<"a">> :> IntNumber(1)))
        /\ input = E_empty_last =>
               output[2][2] = (<<"a">> :> Object(<<>> :> IntNumber(1)))
        /\ input = E_empty_middle =>
               output[2][2] = (<<"a">> :> Object(<<>> :> Object(<<"b">> :> IntNumber(1))))

\* .a=1, a.=1 or a..b=1
C29_Witness ==
    /\ LoadedTokens
    /\ input \in {E_empty_first, E_empty_last, E_empty_middle}
    /\ IsOk(output[2])
    /\ \E q \in {<<<<>>, <<"a">>>>, <<<<"a">>, <<>>>>, <<<<"a">>, <<>>, <<"b">>>>} :
           Lookup(output[2][2], q) = Some(IntNumber(1))

---------------------------------------------------------------------------
(* The map after a config call that failed *)

\* the last call was collect_config_variables and returned an error
ConfigCallReturnedErr == ConfigCallReturned /\ result[1] = "Err"

\* C30: when collect_config_variables returns an error, the file being
\* unreadable, of an unsupported extension, or not decodable, the caller's map
\* is exactly what it was before the call: no key of the file was inserted and
\* no entry was lost.
C30_FailedConfigLeavesMap ==
    ConfigCallReturnedErr =>
        /\ variables = before
        /\ \/ ConfigPath \notin DOMAIN files
           \/ Extension(ConfigPath) \notin AcceptedExtensions
           \/ IsErr(files[ConfigPath][FormatOf(Extension(ConfigPath))])

\* on a map that holds entries: m.json, which does not exist; c.txt, of an
\* unsupported extension; b.yml, which does not decode
C30_Witness ==
    /\ ConfigCallReturnedErr
    /\ before # EmptyMap
    /\ variables = before
    /\ \/ ConfigPath = P_missing /\ FailedWith("FileSystemError")
       \/ ConfigPath = P_txt /\ FailedWith("ConfigParseError")
       \/ ConfigPath = P_bad /\ FailedWith("ConfigParseError")

====
